---------------------------- MODULE Spec2Model ----------------------------
(***************************************************************************)
(* A model of the proost kernel: the hashconsing arena, the universe-level *)
(* algebra and the type checker.                                           *)
(*                                                                         *)
(* A handle (Level<'arena>, Term<'arena>) is a reference to a node that    *)
(* the bump allocator owns.  Here a handle is the position of its node in  *)
(* the allocation sequence, so that two handles are equal exactly when     *)
(* they point to the same node (core::ptr::eq), whatever the payloads.     *)
(***************************************************************************)
EXTENDS Integers, Sequences, FiniteSets, TLC

VARIABLES
    alloc_levels,     \* the level nodes the allocator holds, in allocation order
    hashcons_levels,  \* Arena::hashcons_levels : payload -> Level
    alloc_terms,      \* the term nodes the allocator holds, in allocation order
    hashcons_terms,   \* Arena::hashcons_terms : the set of interned term nodes
    alloc_decls,      \* the instantiated declarations the allocator holds, in allocation order
    hashcons_decls,   \* Arena::hashcons_decls : the set of interned instantiated declarations
    named_decls,      \* Arena::named_decls : name -> Declaration
    named_terms,      \* Arena::named_terms : name -> Term
    mem_subst,        \* Arena::mem_subst : (term, term, depth) -> Term
    last,             \* the last call made on the arena and what it returned
    held,             \* the term handles the client holds: what its calls returned
    built,            \* history: the expressions the client has built
    numerals,         \* history: level handle -> values of the closed expressions built to it
    bindings          \* history: name -> what the most recent bind, bind_decl gave it

vars == <<alloc_levels, hashcons_levels, alloc_terms, hashcons_terms,
          alloc_decls, hashcons_decls, named_decls, named_terms, mem_subst, last, held, built, numerals, bindings>>

-----------------------------------------------------------------------------
(* Bounds of the model. *)

\* level constructor calls are made while the arena holds fewer level nodes
MaxLevelNodes == 4
\* universe variables are Var(0) .. Var(MaxUnivVar - 1)
MaxUnivVar == 2
\* Level::add is called with offsets 0 .. MaxOffset; the offsets reached stay far
\* below 2^32, so the u32 sum n + k of normalize never overflows here
MaxOffset == 2
\* a session builds at most MaxBuilt different expressions, each any number of times
MaxBuilt == 1
\* the client keeps at most MaxHeld term handles
MaxHeld == 2
\* how many expressions a session of conversions builds
MaxCompared == 2

\* declarations are bound with 0 .. MaxArity universe parameters
MaxArity == 1

-----------------------------------------------------------------------------
(* The arena as one value, threaded through the operations. *)

EmptyFn == [x \in {} |-> 0]

Range(f) == {f[x] : x \in DOMAIN f}

\* let v = ...; Body(v): the value of a call, named once and used by what follows
Let(v, Body(_)) == CHOOSE r \in {Body(w) : w \in {v}} : TRUE

Arena ==
    [alloc_levels    |-> alloc_levels,
     hashcons_levels |-> hashcons_levels,
     alloc_terms     |-> alloc_terms,
     hashcons_terms  |-> hashcons_terms,
     alloc_decls     |-> alloc_decls,
     hashcons_decls  |-> hashcons_decls,
     named_decls     |-> named_decls,
     named_terms     |-> named_terms,
     mem_subst       |-> mem_subst]

ArenaNew ==
    [alloc_levels    |-> <<>>,
     hashcons_levels |-> EmptyFn,
     alloc_terms     |-> <<>>,
     hashcons_terms  |-> {},
     alloc_decls     |-> <<>>,
     hashcons_decls  |-> {},
     named_decls     |-> EmptyFn,
     named_terms     |-> EmptyFn,
     mem_subst       |-> EmptyFn]

Commit(arena) ==
    /\ alloc_levels' = arena.alloc_levels
    /\ hashcons_levels' = arena.hashcons_levels
    /\ alloc_terms' = arena.alloc_terms
    /\ hashcons_terms' = arena.hashcons_terms
    /\ alloc_decls' = arena.alloc_decls
    /\ hashcons_decls' = arena.hashcons_decls
    /\ named_decls' = arena.named_decls
    /\ named_terms' = arena.named_terms
    /\ mem_subst' = arena.mem_subst

-----------------------------------------------------------------------------
(* Universe levels: memory/level/mod.rs *)

\* level::Payload; a and b are the two fields of the variant (0 when absent)
LevelPayload(k, a, b) == [k |-> k, a |-> a, b |-> b]

Zero == LevelPayload("Zero", 0, 0)

\* what a level operation returns: the arena it leaves and the handle
LevelRet(arena, level) == [arena |-> arena, level |-> level]

\* Deref: the payload of the node a handle points to
LevelDeref(arena, level) == arena.alloc_levels[level]

\* the map with key `payload` bound to `level` (HashMap::insert)
MapInsert(map, key, value) == (key :> value) @@ map

\* lines 84-86 without line 85: the unreduced payload keeps its unreduced node
SupersedeForgetsUnreduced(map, payload, reduced, reduced_payload) ==
    MapInsert(map, reduced_payload, reduced)

\* lines 84-86: the unreduced payload and the reduced one both lead to `reduced`
Supersede(map, payload, reduced, reduced_payload) ==
    MapInsert(MapInsert(map, payload, reduced), reduced_payload, reduced)

RECURSIVE LevelHashcons(_, _)
RECURSIVE LevelNormalize(_, _)

LevelZero(arena) == LevelHashcons(Zero, arena)

LevelSucc(self, arena) == LevelHashcons(LevelPayload("Add", self, 1), arena)

LevelAdd(self, n, arena) == LevelHashcons(LevelPayload("Add", self, n), arena)

LevelMax(self, right, arena) == LevelHashcons(LevelPayload("Max", self, right), arena)

LevelIMax(self, right, arena) == LevelHashcons(LevelPayload("IMax", self, right), arena)

LevelVar(id, arena) == LevelHashcons(LevelPayload("Var", id, 0), arena)

\* Level::from
LevelFrom(n, arena) ==
    Let(LevelZero(arena), LAMBDA z : LevelAdd(z.level, n, z.arena))

LevelHashcons(payload, arena) ==
    IF payload \in DOMAIN arena.hashcons_levels
    THEN LevelRet(arena, arena.hashcons_levels[payload])
    ELSE LET level_unreduced == Len(arena.alloc_levels) + 1
             added == [arena EXCEPT
                         !.alloc_levels = Append(@, payload),
                         !.hashcons_levels = MapInsert(@, payload, level_unreduced)]
         IN  Let(LevelNormalize(level_unreduced, added), LAMBDA reduced :
             LevelRet([reduced.arena EXCEPT
                         !.hashcons_levels =
                             Supersede(@, payload, reduced.level,
                                       LevelDeref(reduced.arena, reduced.level))],
                      reduced.level))

\* line 176 with the two offsets left as they are, not lowered by their minimum
NormalizeMaxAddKeepsOffsets(uu, k1, vv, k2, arena) ==
    LET min == IF k1 < k2 THEN k1 ELSE k2
    IN  Let(LevelAdd(uu, k1, arena), LAMBDA l :
        Let(LevelAdd(vv, k2, l.arena), LAMBDA r :
        Let(LevelMax(l.level, r.level, r.arena), LAMBDA m :
        LevelAdd(m.level, min, m.arena))))

\* the Max(u, v) arm of normalize when both operands are Add nodes
NormalizeMaxAdd(uu, k1, vv, k2, arena) ==
    LET min == IF k1 < k2 THEN k1 ELSE k2
    IN  Let(LevelAdd(uu, k1 - min, arena), LAMBDA l :
        Let(LevelAdd(vv, k2 - min, l.arena), LAMBDA r :
        Let(LevelMax(l.level, r.level, r.arena), LAMBDA m :
        LevelAdd(m.level, min, m.arena))))

\* line 158 as the comment of line 142 has it: imax(u, 0) = u
NormalizeIMaxZeroGivesLeft(self, u, v, pv, arena) ==
    CASE pv.k = "Zero" -> LevelRet(arena, u)
      [] pv.k = "Add" -> LevelMax(u, v, arena)
      [] pv.k = "IMax" ->
            Let(LevelIMax(u, pv.b, arena), LAMBDA l :
            LevelMax(l.level, v, l.arena))
      [] pv.k = "Max" ->
            Let(LevelIMax(u, pv.a, arena), LAMBDA l :
            Let(LevelIMax(u, pv.b, l.arena), LAMBDA r :
            LevelMax(l.level, r.level, r.arena)))
      [] OTHER -> LevelRet(arena, self)

\* the IMax(u, v) arm of normalize, u # v, by the payload pv of v
NormalizeIMax(self, u, v, pv, arena) ==
    CASE pv.k = "Zero" -> LevelRet(arena, v)
      [] pv.k = "Add" -> LevelMax(u, v, arena)
      [] pv.k = "IMax" ->
            Let(LevelIMax(u, pv.b, arena), LAMBDA l :
            LevelMax(l.level, v, l.arena))
      [] pv.k = "Max" ->
            Let(LevelIMax(u, pv.a, arena), LAMBDA l :
            Let(LevelIMax(u, pv.b, l.arena), LAMBDA r :
            LevelMax(l.level, r.level, r.arena)))
      [] OTHER -> LevelRet(arena, self)

LevelNormalize(self, arena) ==
    LET p == LevelDeref(arena, self)
        pu == LevelDeref(arena, p.a)
        pv == LevelDeref(arena, p.b)
    IN  CASE p.k = "IMax" ->
                IF p.a = p.b THEN LevelRet(arena, p.a)
                ELSE NormalizeIMax(self, p.a, p.b, pv, arena)
          [] p.k = "Max" ->
                IF p.a = p.b THEN LevelRet(arena, p.a)
                ELSE IF pu.k = "Zero" THEN LevelRet(arena, p.b)
                ELSE IF pv.k = "Zero" THEN LevelRet(arena, p.a)
                ELSE IF pu.k = "Add" /\ pv.k = "Add"
                     THEN NormalizeMaxAdd(pu.a, pu.b, pv.a, pv.b, arena)
                ELSE LevelRet(arena, self)
          [] p.k = "Add" ->
                IF p.b = 0 THEN LevelRet(arena, p.a)
                ELSE IF pu.k = "Add" THEN LevelAdd(pu.a, pu.b + p.b, arena)
                ELSE LevelRet(arena, self)
          [] OTHER -> LevelRet(arena, self)

\* Option<u32>
None == [some |-> FALSE, v |-> 0]
Some(n) == [some |-> TRUE, v |-> n]

\* line 135 without the test that the level under the Add is Zero
ToNumeralOfAnyAdd(arena, level) ==
    LET p == LevelDeref(arena, level)
    IN  CASE p.k = "Zero" -> Some(0)
          [] p.k = "Add" -> Some(p.b)
          [] OTHER -> None

\* Level::to_numeral
ToNumeral(arena, level) ==
    LET p == LevelDeref(arena, level)
    IN  CASE p.k = "Zero" -> Some(0)
          [] p.k = "Add" -> IF LevelDeref(arena, p.a) = Zero THEN Some(p.b) ELSE None
          [] OTHER -> None

\* the levels below `level`, itself included
RECURSIVE SubLevels(_, _)
SubLevels(arena, level) ==
    LET p == LevelDeref(arena, level)
    IN  {level} \cup
        CASE p.k = "Add" -> SubLevels(arena, p.a)
          [] p.k \in {"Max", "IMax"} -> SubLevels(arena, p.a) \cup SubLevels(arena, p.b)
          [] OTHER -> {}

\* a universe variable occurs in `level`
HasVar(arena, level) ==
    \E s \in SubLevels(arena, level) : LevelDeref(arena, s).k = "Var"

\* the universe variables Var(i) on which an imax of `level` is stuck
StuckVars(arena, level) ==
    {LevelDeref(arena, LevelDeref(arena, s).b).a :
        s \in {x \in SubLevels(arena, level) :
                  /\ LevelDeref(arena, x).k = "IMax"
                  /\ LevelDeref(arena, LevelDeref(arena, x).b).k = "Var"}}

\* the universe variables of `level`
UnivVars(arena, level) ==
    {LevelDeref(arena, s).a :
        s \in {x \in SubLevels(arena, level) : LevelDeref(arena, x).k = "Var"}}

SetMin(S) == CHOOSE x \in S : \A y \in S : x <= y
SetMax(S) == CHOOSE x \in S : \A y \in S : y <= x

\* `self` with Var(id) replaced by the level `by`, interned again
RECURSIVE LevelSubstitute(_, _, _, _)
LevelSubstitute(self, id, by, arena) ==
    LET p == LevelDeref(arena, self)
    IN  CASE p.k = "Var" -> LevelRet(arena, IF p.a = id THEN by ELSE self)
          [] p.k = "Add" ->
                Let(LevelSubstitute(p.a, id, by, arena), LAMBDA u :
                LevelAdd(u.level, p.b, u.arena))
          [] p.k = "Max" ->
                Let(LevelSubstitute(p.a, id, by, arena), LAMBDA u :
                Let(LevelSubstitute(p.b, id, by, u.arena), LAMBDA v :
                LevelMax(u.level, v.level, v.arena)))
          [] p.k = "IMax" ->
                Let(LevelSubstitute(p.a, id, by, arena), LAMBDA u :
                Let(LevelSubstitute(p.b, id, by, u.arena), LAMBDA v :
                LevelIMax(u.level, v.level, v.arena)))
          [] OTHER -> LevelRet(arena, self)

\* what a decision returns: the arena it leaves and the answer
BoolRet(arena, b) == [arena |-> arena, b |-> b]

\* Level::is_eq: the same handle, or, when an imax is stuck on Var(i), equal with
\* Var(i) replaced by 0 and equal with Var(i) replaced by a fresh variable + 1
RECURSIVE LevelIsEq(_, _, _)
LevelIsEq(self, rhs, arena) ==
    LET stuck == StuckVars(arena, self) \cup StuckVars(arena, rhs)
        i == SetMin(stuck)
        j == SetMax(UnivVars(arena, self) \cup UnivVars(arena, rhs)) + 1
    IN  IF self = rhs THEN BoolRet(arena, TRUE)
        ELSE IF stuck = {} THEN BoolRet(arena, FALSE)
        ELSE Let(LevelZero(arena), LAMBDA zero :
             Let(LevelSubstitute(self, i, zero.level, zero.arena), LAMBDA self0 :
             Let(LevelSubstitute(rhs, i, zero.level, self0.arena), LAMBDA rhs0 :
             Let(LevelIsEq(self0.level, rhs0.level, rhs0.arena), LAMBDA eq0 :
             IF ~eq0.b THEN eq0
             ELSE Let(LevelVar(j, eq0.arena), LAMBDA fresh :
                  Let(LevelSucc(fresh.level, fresh.arena), LAMBDA succ :
                  Let(LevelSubstitute(self, i, succ.level, succ.arena), LAMBDA self1 :
                  Let(LevelSubstitute(rhs, i, succ.level, self1.arena), LAMBDA rhs1 :
                  LevelIsEq(self1.level, rhs1.level, rhs1.arena)))))))))

-----------------------------------------------------------------------------
(* Terms: memory/term, calculus *)

\* term::Payload; a and b are the two fields of the variant:
\* Sort(level), Var(index, type), App(f, x), Abs(type, body), Prod(type, body),
\* Axiom(axiom, levels), Decl(instantiated declaration)
TermPayload(k, a, b) == [k |-> k, a |-> a, b |-> b]

\* a term node: its payload and the two write-once cells of its header, 0 when empty
TermNode(payload) == [payload |-> payload, type_ |-> 0, whnf |-> 0]

\* PartialEq for Node, had it been derived: the header is compared too
NodeEqWithHeader(x, y) == x = y

\* PartialEq for Node: only the payload matters, its variant and then its fields
NodeEq(x, y) == x.payload.k = y.payload.k /\ x.payload = y.payload

TermRet(arena, term) == [arena |-> arena, term |-> term]

TermDeref(arena, term) == arena.alloc_terms[term].payload

\* Term::hashcons: the node of hashcons_terms equal to the new one, else a new node
TermHashcons(payload, arena) ==
    LET node == TermNode(payload)
        found == {t \in arena.hashcons_terms : NodeEq(arena.alloc_terms[t], node)}
        addr == Len(arena.alloc_terms) + 1
    IN  IF found # {}
        THEN TermRet(arena, CHOOSE t \in found : TRUE)
        ELSE TermRet([arena EXCEPT
                         !.alloc_terms = Append(@, node),
                         !.hashcons_terms = @ \cup {addr}],
                     addr)

TermSort(level, arena) == TermHashcons(TermPayload("Sort", level, 0), arena)

TermVar(index, type_, arena) == TermHashcons(TermPayload("Var", index, type_), arena)

TermApp(self, arg, arena) == TermHashcons(TermPayload("App", self, arg), arena)

TermAbs(self, body, arena) == TermHashcons(TermPayload("Abs", self, body), arena)

TermProd(self, body, arena) == TermHashcons(TermPayload("Prod", self, body), arena)

\* Term::axiom: the axiom and the levels its universe variables are given
TermAxiom(axiom, lvl, arena) == TermHashcons(TermPayload("Axiom", axiom, lvl), arena)

\* Term::prop
TermProp(arena) ==
    Let(LevelZero(arena), LAMBDA z : TermSort(z.level, z.arena))

\* Term::sort_usize
TermSortUsize(n, arena) ==
    Let(LevelFrom(n, arena), LAMBDA l : TermSort(l.level, l.arena))

\* Term::type_usize
TermTypeUsize(n, arena) ==
    Let(LevelFrom(n + 1, arena), LAMBDA l : TermSort(l.level, l.arena))

\* Declaration(term, arity)
Declaration(term, arity) == [term |-> term, arity |-> arity]

\* declaration::Node: the declaration and the levels it is instantiated with,
\* and the write-once cell of its header for the term, 0 when empty
DeclNode(decl, params) ==
    [payload |-> [decl |-> decl, params |-> params], term |-> 0]

\* InstantiatedDeclaration::instantiate: the node of hashcons_decls with this
\* payload, else a new node; `term` of the result is the handle of the node
Instantiate(decl, params, arena) ==
    LET node == DeclNode(decl, params)
        found == {d \in arena.hashcons_decls :
                     arena.alloc_decls[d].payload = node.payload}
        addr == Len(arena.alloc_decls) + 1
    IN  IF found # {}
        THEN TermRet(arena, CHOOSE d \in found : TRUE)
        ELSE TermRet([arena EXCEPT
                         !.alloc_decls = Append(@, node),
                         !.hashcons_decls = @ \cup {addr}],
                     addr)

\* Term::decl
TermDecl(decl, arena) == TermHashcons(TermPayload("Decl", decl, 0), arena)

\* Level::substitute: every Var(id) of `self` replaced by univs[id], the level
\* interned again
RECURSIVE LevelSubstituteUnivs(_, _, _)
LevelSubstituteUnivs(self, univs, arena) ==
    LET p == LevelDeref(arena, self)
    IN  CASE p.k = "Var" -> LevelRet(arena, univs[p.a + 1])
          [] p.k = "Add" ->
                Let(LevelSubstituteUnivs(p.a, univs, arena), LAMBDA u :
                LevelAdd(u.level, p.b, u.arena))
          [] p.k = "Max" ->
                Let(LevelSubstituteUnivs(p.a, univs, arena), LAMBDA u :
                Let(LevelSubstituteUnivs(p.b, univs, u.arena), LAMBDA v :
                LevelMax(u.level, v.level, v.arena)))
          [] p.k = "IMax" ->
                Let(LevelSubstituteUnivs(p.a, univs, arena), LAMBDA u :
                Let(LevelSubstituteUnivs(p.b, univs, u.arena), LAMBDA v :
                LevelIMax(u.level, v.level, v.arena)))
          [] OTHER -> LevelRet(arena, self)

\* levels.iter().map(|level| level.substitute(univs, arena)): `level` of the
\* result is the sequence of the levels substituted
RECURSIVE SubstituteParams(_, _, _)
SubstituteParams(levels, univs, arena) ==
    IF levels = <<>> THEN LevelRet(arena, <<>>)
    ELSE Let(LevelSubstituteUnivs(Head(levels), univs, arena), LAMBDA l :
         Let(SubstituteParams(Tail(levels), univs, l.arena), LAMBDA rest :
         LevelRet(rest.arena, <<l.level>> \o rest.level)))

\* Term::substitute_univs: the universe variables of `self` replaced by the
\* levels `univs`, in its sorts, in the levels of its axioms and in the
\* parameters of its declarations
RECURSIVE TermSubstituteUnivs(_, _, _)
TermSubstituteUnivs(self, univs, arena) ==
    LET p == TermDeref(arena, self)
    IN  CASE p.k = "Var" ->
                Let(TermSubstituteUnivs(p.b, univs, arena), LAMBDA ty :
                TermVar(p.a, ty.term, ty.arena))
          [] p.k = "Sort" ->
                Let(LevelSubstituteUnivs(p.a, univs, arena), LAMBDA l :
                TermSort(l.level, l.arena))
          [] p.k = "App" ->
                Let(TermSubstituteUnivs(p.a, univs, arena), LAMBDA l :
                Let(TermSubstituteUnivs(p.b, univs, l.arena), LAMBDA r :
                TermApp(l.term, r.term, r.arena)))
          [] p.k = "Abs" ->
                Let(TermSubstituteUnivs(p.a, univs, arena), LAMBDA l :
                Let(TermSubstituteUnivs(p.b, univs, l.arena), LAMBDA r :
                TermAbs(l.term, r.term, r.arena)))
          [] p.k = "Prod" ->
                Let(TermSubstituteUnivs(p.a, univs, arena), LAMBDA l :
                Let(TermSubstituteUnivs(p.b, univs, l.arena), LAMBDA r :
                TermProd(l.term, r.term, r.arena)))
          [] p.k = "Decl" ->
                Let(SubstituteParams(arena.alloc_decls[p.a].payload.params, univs, arena),
                    LAMBDA params :
                Let(Instantiate(arena.alloc_decls[p.a].payload.decl, params.level,
                                params.arena), LAMBDA inst :
                TermDecl(inst.term, inst.arena)))
          [] p.k = "Axiom" ->
                Let(SubstituteParams(p.b, univs, arena), LAMBDA lvl :
                TermAxiom(p.a, lvl.level, lvl.arena))

\* InstantiatedDeclaration::get_term: the body of the declaration with its
\* universe variables replaced by the parameters, kept in the cell of the node
DeclGetTerm(decl, arena) ==
    IF arena.alloc_decls[decl].term # 0
    THEN TermRet(arena, arena.alloc_decls[decl].term)
    ELSE Let(TermSubstituteUnivs(arena.alloc_decls[decl].payload.decl.term,
                                 arena.alloc_decls[decl].payload.params, arena),
             LAMBDA body :
         TermRet([body.arena EXCEPT !.alloc_decls[decl].term = body.term], body.term))

\* Term::shift: the free variables of `self` (index > depth) raised by offset,
\* their cached types with them
RECURSIVE TermShift(_, _, _, _)
TermShift(self, offset, depth, arena) ==
    LET p == TermDeref(arena, self)
    IN  CASE p.k = "Var" /\ p.a > depth ->
                Let(TermShift(p.b, offset, depth, arena), LAMBDA ty :
                TermVar(p.a + offset, ty.term, ty.arena))
          [] p.k = "App" ->
                Let(TermShift(p.a, offset, depth, arena), LAMBDA l :
                Let(TermShift(p.b, offset, depth, l.arena), LAMBDA r :
                TermApp(l.term, r.term, r.arena)))
          [] p.k = "Abs" ->
                Let(TermShift(p.a, offset, depth, arena), LAMBDA l :
                Let(TermShift(p.b, offset, depth + 1, l.arena), LAMBDA body :
                TermAbs(l.term, body.term, body.arena)))
          [] p.k = "Prod" ->
                Let(TermShift(p.a, offset, depth, arena), LAMBDA l :
                Let(TermShift(p.b, offset, depth + 1, l.arena), LAMBDA body :
                TermProd(l.term, body.term, body.arena)))
          [] OTHER -> TermRet(arena, self)

\* Term::substitute: Var(depth) of `self` replaced by `sub` shifted under the
\* binders crossed, the variables above depth lowered by one; memoized in mem_subst
RECURSIVE TermSubstitute(_, _, _, _)
TermSubstitute(self, sub, depth, arena) ==
    LET key == <<self, sub, depth>>
        p == TermDeref(arena, self)
        Memo(res) == TermRet([res.arena EXCEPT !.mem_subst = MapInsert(@, key, res.term)],
                             res.term)
    IN  IF key \in DOMAIN arena.mem_subst
        THEN TermRet(arena, arena.mem_subst[key])
        ELSE CASE p.k = "Var" /\ p.a = depth ->
                     Memo(TermShift(sub, depth - 1, 0, arena))
               [] p.k = "Var" /\ p.a > depth ->
                     Memo(TermVar(p.a - 1, p.b, arena))
               [] p.k = "App" ->
                     Let(TermSubstitute(p.a, sub, depth, arena), LAMBDA l :
                     Let(TermSubstitute(p.b, sub, depth, l.arena), LAMBDA r :
                     Memo(TermApp(l.term, r.term, r.arena))))
               [] p.k = "Abs" ->
                     Let(TermSubstitute(p.a, sub, depth, arena), LAMBDA l :
                     Let(TermSubstitute(p.b, sub, depth + 1, l.arena), LAMBDA body :
                     Memo(TermAbs(l.term, body.term, body.arena))))
               [] p.k = "Prod" ->
                     Let(TermSubstitute(p.a, sub, depth, arena), LAMBDA l :
                     Let(TermSubstitute(p.b, sub, depth + 1, l.arena), LAMBDA body :
                     Memo(TermProd(l.term, body.term, body.arena))))
               [] OTHER -> Memo(TermRet(arena, self))

\* OnceCell::get_or_init on the whnf cell: the first value written stays
SetWhnf(arena, term, value) ==
    IF arena.alloc_terms[term].whnf # 0 THEN arena
    ELSE [arena EXCEPT !.alloc_terms[term].whnf = value]

\* Option<Term>, with the arena after the call
NoneRet(arena) == [arena |-> arena, some |-> FALSE, term |-> 0]
SomeRet(arena, term) == [arena |-> arena, some |-> TRUE, term |-> term]

\* Term::unfold: the body of an instantiated declaration, any other term as it is
TermUnfold(self, arena) ==
    IF TermDeref(arena, self).k = "Decl"
    THEN DeclGetTerm(TermDeref(arena, self).a, arena)
    ELSE TermRet(arena, self)

RECURSIVE TermWhnf(_, _)
RECURSIVE EqualityReduce(_, _)

\* Term::reduce_recursor: the reducers of the axiom schemas, here of equality
ReduceRecursor(self, arena) == EqualityReduce(self, arena)

\* the weak-head normal form with one beta step, not reduced further
TermWhnfOneStep(self, arena) ==
    LET p == TermDeref(arena, self)
        Cache(res) == TermRet(SetWhnf(res.arena, self, res.term), res.term)
    IN  IF arena.alloc_terms[self].whnf # 0
        THEN TermRet(arena, arena.alloc_terms[self].whnf)
        ELSE IF p.k = "App"
             THEN Let(TermUnfold(p.a, arena), LAMBDA head :
                  Let(TermWhnf(head.term, head.arena), LAMBDA f :
                  IF TermDeref(f.arena, f.term).k = "Abs"
                  THEN Let(TermSubstitute(TermDeref(f.arena, f.term).b, p.b, 1, f.arena),
                           LAMBDA subst :
                       Cache(TermRet(subst.arena, subst.term)))
                  ELSE Let(ReduceRecursor(self, f.arena), LAMBDA red :
                       IF red.some THEN Cache(TermRet(red.arena, red.term))
                       ELSE Cache(TermRet(red.arena, self)))))
        ELSE Cache(TermRet(arena, self))

\* Term::whnf: beta-reduction in head position, a declaration at the head of an
\* application unfolded, and the reductions of the axioms, until none applies;
\* memoized in the whnf cell.  A declaration that is applied to nothing stays
TermWhnf(self, arena) ==
    LET p == TermDeref(arena, self)
        Cache(res) == TermRet(SetWhnf(res.arena, self, res.term), res.term)
    IN  IF arena.alloc_terms[self].whnf # 0
        THEN TermRet(arena, arena.alloc_terms[self].whnf)
        ELSE IF p.k = "App"
             THEN Let(TermUnfold(p.a, arena), LAMBDA head :
                  Let(TermWhnf(head.term, head.arena), LAMBDA f :
                  IF TermDeref(f.arena, f.term).k = "Abs"
                  THEN Let(TermSubstitute(TermDeref(f.arena, f.term).b, p.b, 1, f.arena),
                           LAMBDA subst :
                       Cache(TermWhnf(subst.term, subst.arena)))
                  ELSE Let(ReduceRecursor(self, f.arena), LAMBDA red :
                       IF red.some THEN Cache(TermWhnf(red.term, red.arena))
                       ELSE Cache(TermRet(red.arena, self)))))
        ELSE Cache(TermRet(arena, self))

-----------------------------------------------------------------------------
(* Errors and results: error.rs, trace.rs *)

\* type_checker::ErrorKind with the terms it carries, in the order of its fields
\* (a TypedTerm gives two), and the trace
NoError == [kind |-> "none", terms |-> <<>>, trace |-> <<>>]

\* Error::new
ErrorNew(kind, terms) == [kind |-> kind, terms |-> terms, trace |-> <<>>]

\* ResultTerm with the arena the call leaves
Ok(arena, term) == [arena |-> arena, ok |-> TRUE, term |-> term, err |-> NoError]
Err(arena, err) == [arena |-> arena, ok |-> FALSE, term |-> 0, err |-> err]

\* TraceableError::trace_err: the step is pushed at the end of the trace of an
\* Err (lines 604-618 expect [Left, Right] where the fault lies Right then Left
\* of the root), so that a trace reads from the sub-term at fault up to the root
TraceErr(res, step) ==
    IF res.ok THEN res ELSE [res EXCEPT !.err.trace = Append(@, step)]

-----------------------------------------------------------------------------
(* The type checker: type_checker.rs *)

\* OnceCell of the type: the first value written stays
SetType(arena, term, value) ==
    IF arena.alloc_terms[term].type_ # 0 THEN arena
    ELSE [arena EXCEPT !.alloc_terms[term].type_ = value]

IsSort(arena, term) == TermDeref(arena, term).k = "Sort"

\* the term is Sort(0)
IsProp(arena, term) ==
    /\ IsSort(arena, term)
    /\ LevelDeref(arena, TermDeref(arena, term).a) = Zero

RECURSIVE TermInfer(_, _)
RECURSIVE TermConversion(_, _, _)

\* Term::is_relevant: a term is irrelevant when it is a proof, that is when
\* the type of its type reduces to Prop. The test irrelevance_conversion
\* (lines 571-583) fixes this case: fun _ : False => Var(1, False), of type
\* False -> False, converts with a term of another structure, and the type of
\* False -> False is Prop while False -> False itself is a product. A term
\* whose inferred type is Prop itself (a proposition) is taken as relevant;
\* no test of the repository calls conversion on such a term with a term of
\* another structure
TermIsRelevant(self, arena) ==
    Let(TermInfer(self, arena), LAMBDA ty :
    IF ~ty.ok THEN BoolRet(ty.arena, TRUE)
    ELSE Let(TermInfer(ty.term, ty.arena), LAMBDA sort :
         IF ~sort.ok THEN BoolRet(sort.arena, TRUE)
         ELSE Let(TermWhnf(sort.term, sort.arena), LAMBDA w :
              BoolRet(w.arena, ~IsProp(w.arena, w.term)))))

\* t1.conversion(t2) && u1.conversion(u2)
ConversionBoth(t1, t2, u1, u2, arena) ==
    Let(TermConversion(t1, t2, arena), LAMBDA c1 :
    IF ~c1.b THEN c1 ELSE TermConversion(u1, u2, c1.arena))

\* the match with variables compared by index and by type
ConversionMatchComparesTypes(lhs, rhs, arena) ==
    LET pl == TermDeref(arena, lhs)
        pr == TermDeref(arena, rhs)
    IN  CASE pl.k = "Sort" /\ pr.k = "Sort" -> LevelIsEq(pl.a, pr.a, arena)
          [] pl.k = "Var" /\ pr.k = "Var" -> BoolRet(arena, pl.a = pr.a /\ pl.b = pr.b)
          [] pl.k = "Prod" /\ pr.k = "Prod" -> ConversionBoth(pl.a, pr.a, pl.b, pr.b, arena)
          [] pl.k = "Abs" /\ pr.k = "Abs" -> TermConversion(pl.b, pr.b, arena)
          [] pl.k = "App" /\ pr.k = "App" -> ConversionBoth(pl.a, pr.a, pl.b, pr.b, arena)
          [] pl.k = "Decl" ->
                Let(DeclGetTerm(pl.a, arena), LAMBDA body :
                TermConversion(body.term, rhs, body.arena))
          [] pl.k # "Decl" /\ pr.k = "Decl" ->
                Let(DeclGetTerm(pr.a, arena), LAMBDA body :
                TermConversion(body.term, lhs, body.arena))
          [] OTHER -> BoolRet(arena, FALSE)

\* the match of Term::conversion on the two weak-head normal forms
ConversionMatch(lhs, rhs, arena) ==
    LET pl == TermDeref(arena, lhs)
        pr == TermDeref(arena, rhs)
    IN  CASE pl.k = "Sort" /\ pr.k = "Sort" -> LevelIsEq(pl.a, pr.a, arena)
          [] pl.k = "Var" /\ pr.k = "Var" -> BoolRet(arena, pl.a = pr.a)
          [] pl.k = "Prod" /\ pr.k = "Prod" -> ConversionBoth(pl.a, pr.a, pl.b, pr.b, arena)
          [] pl.k = "Abs" /\ pr.k = "Abs" -> TermConversion(pl.b, pr.b, arena)
          [] pl.k = "App" /\ pr.k = "App" -> ConversionBoth(pl.a, pr.a, pl.b, pr.b, arena)
          [] pl.k = "Decl" ->
                Let(DeclGetTerm(pl.a, arena), LAMBDA body :
                TermConversion(body.term, rhs, body.arena))
          [] pl.k # "Decl" /\ pr.k = "Decl" ->
                Let(DeclGetTerm(pr.a, arena), LAMBDA body :
                TermConversion(body.term, lhs, body.arena))
          [] OTHER -> BoolRet(arena, FALSE)

\* Term::conversion
TermConversion(self, rhs, arena) ==
    IF self = rhs THEN BoolRet(arena, TRUE)
    ELSE Let(TermIsRelevant(self, arena), LAMBDA rel :
         IF ~rel.b THEN BoolRet(rel.arena, TRUE)
         ELSE Let(TermWhnf(self, rel.arena), LAMBDA lhs :
              Let(TermWhnf(rhs, lhs.arena), LAMBDA rhsw :
              IF lhs.term = rhsw.term THEN BoolRet(rhsw.arena, TRUE)
              ELSE ConversionMatch(lhs.term, rhsw.term, rhsw.arena))))

\* what Term::is_def_eq and Term::check return: Result<(), Error>
UnitOk(arena) == [arena |-> arena, ok |-> TRUE, term |-> 0, err |-> NoError]

\* is_def_eq reporting its two arguments in the other order
TermIsDefEqSwapsTerms(self, rhs, arena) ==
    Let(TermConversion(self, rhs, arena), LAMBDA c :
    IF c.b THEN UnitOk(c.arena)
    ELSE Err(c.arena, ErrorNew("NotDefEq", <<rhs, self>>)))

\* Term::is_def_eq
TermIsDefEq(self, rhs, arena) ==
    Let(TermConversion(self, rhs, arena), LAMBDA c :
    IF c.b THEN UnitOk(c.arena)
    ELSE Err(c.arena, ErrorNew("NotDefEq", <<self, rhs>>)))

\* `let App(f, x) = *f.whnf(arena) else { return None }`: the function and the
\* argument of the weak-head normal form of f, handed to the rest of reduce
Peel(f, arena, Rest(_, _, _)) ==
    Let(TermWhnf(f, arena), LAMBDA w :
    IF TermDeref(w.arena, w.term).k = "App"
    THEN Rest(TermDeref(w.arena, w.term).a, TermDeref(w.arena, w.term).b, w.arena)
    ELSE NoneRet(w.arena))

\* `let Axiom(Equality(axiom), _) = *f.unfold(arena).whnf(arena) else { return None }`
HeadIs(f, axiom, arena, Rest(_)) ==
    Let(TermUnfold(f, arena), LAMBDA u :
    Let(TermWhnf(u.term, u.arena), LAMBDA w :
    IF TermDeref(w.arena, w.term).k = "Axiom" /\ TermDeref(w.arena, w.term).a = axiom
    THEN Rest(w.arena)
    ELSE NoneRet(w.arena)))

\* reduce without line 76: b is not compared with a
EqualityReduceSkipsDefEq(term, arena) ==
    LET p == TermDeref(arena, term)
    IN  IF p.k # "App" THEN NoneRet(arena)
        ELSE
        Peel(p.a, arena, LAMBDA f1, b, arena1 :
        Peel(f1, arena1, LAMBDA f2, motive_refl, arena2 :
        Peel(f2, arena2, LAMBDA f3, motive, arena3 :
        Peel(f3, arena3, LAMBDA f4, a, arena4 :
        Peel(f4, arena4, LAMBDA f5, aty, arena5 :
        HeadIs(f5, "EqRec", arena5, LAMBDA arena6 :
        Let(UnitOk(arena6), LAMBDA eq :
        Peel(p.b, eq.arena, LAMBDA g1, a_, arena7 :
        IF TermDeref(arena7, g1).k # "App" THEN NoneRet(arena7) ELSE
        HeadIs(TermDeref(arena7, g1).a, "Refl", arena7, LAMBDA arena8 :
        SomeRet(arena8, motive_refl))))))))))

\* reduce without lines 78-86: the sixth argument is not looked at
EqualityReduceSkipsRefl(term, arena) ==
    LET p == TermDeref(arena, term)
    IN  IF p.k # "App" THEN NoneRet(arena)
        ELSE
        Peel(p.a, arena, LAMBDA f1, b, arena1 :
        Peel(f1, arena1, LAMBDA f2, motive_refl, arena2 :
        Peel(f2, arena2, LAMBDA f3, motive, arena3 :
        Peel(f3, arena3, LAMBDA f4, a, arena4 :
        Peel(f4, arena4, LAMBDA f5, aty, arena5 :
        HeadIs(f5, "EqRec", arena5, LAMBDA arena6 :
        Let(TermIsDefEq(b, a, arena6), LAMBDA eq :
        IF ~eq.ok THEN NoneRet(eq.arena) ELSE
        SomeRet(eq.arena, motive_refl))))))))

\* Equality::reduce
EqualityReduce(term, arena) ==
    LET p == TermDeref(arena, term)
    IN  IF p.k # "App" THEN NoneRet(arena)
        ELSE
        Peel(p.a, arena, LAMBDA f1, b, arena1 :
        Peel(f1, arena1, LAMBDA f2, motive_refl, arena2 :
        Peel(f2, arena2, LAMBDA f3, motive, arena3 :
        Peel(f3, arena3, LAMBDA f4, a, arena4 :
        Peel(f4, arena4, LAMBDA f5, aty, arena5 :
        HeadIs(f5, "EqRec", arena5, LAMBDA arena6 :
        Let(TermIsDefEq(b, a, arena6), LAMBDA eq :
        IF ~eq.ok THEN NoneRet(eq.arena) ELSE
        Peel(p.b, eq.arena, LAMBDA g1, a_, arena7 :
        IF TermDeref(arena7, g1).k # "App" THEN NoneRet(arena7) ELSE
        HeadIs(TermDeref(arena7, g1).a, "Refl", arena7, LAMBDA arena8 :
        SomeRet(arena8, motive_refl))))))))))

\* lines 115-116 with the two steps exchanged
TermIMaxSwapsSteps(self, rhs, arena) ==
    LET ps == TermDeref(arena, self)
        pr == TermDeref(arena, rhs)
    IN  IF ps.k = "Sort" /\ pr.k = "Sort"
        THEN Let(LevelIMax(ps.a, pr.a, arena), LAMBDA lvl :
             Let(TermSort(lvl.level, lvl.arena), LAMBDA sort :
             Ok(sort.arena, sort.term)))
        ELSE IF ps.k = "Sort"
             THEN TraceErr(Err(arena, ErrorNew("NotUniverse", <<rhs>>)), "Left")
        ELSE TraceErr(Err(arena, ErrorNew("NotUniverse", <<self>>)), "Right")

\* Term::imax: the universe of (x: A) -> B when A: self and B: rhs
TermIMax(self, rhs, arena) ==
    LET ps == TermDeref(arena, self)
        pr == TermDeref(arena, rhs)
    IN  IF ps.k = "Sort" /\ pr.k = "Sort"
        THEN Let(LevelIMax(ps.a, pr.a, arena), LAMBDA lvl :
             Let(TermSort(lvl.level, lvl.arena), LAMBDA sort :
             Ok(sort.arena, sort.term)))
        ELSE IF ps.k = "Sort"
             THEN TraceErr(Err(arena, ErrorNew("NotUniverse", <<rhs>>)), "Right")
        ELSE TraceErr(Err(arena, ErrorNew("NotUniverse", <<self>>)), "Left")

\* line 127 without the successor: Sort(l) : Sort(l)
InferSortSameLevel(lvl, arena) ==
    Let(TermSort(lvl, arena), LAMBDA sort : Ok(sort.arena, sort.term))

\* the Sort arm of Term::infer
InferSort(lvl, arena) ==
    Let(LevelSucc(lvl, arena), LAMBDA succ :
    Let(TermSort(succ.level, succ.arena), LAMBDA sort :
    Ok(sort.arena, sort.term)))

\* the Prod arm handing on the error of the body with no step for it
InferProdLeavesTrace(t, u, arena) ==
    Let(TraceErr(TermInfer(t, arena), "Left"), LAMBDA univ_t :
    IF ~univ_t.ok THEN univ_t
    ELSE Let(TermInfer(u, univ_t.arena), LAMBDA univ_u :
         IF ~univ_u.ok THEN univ_u
         ELSE Let(TermWhnf(univ_t.term, univ_u.arena), LAMBDA whnf_t :
              Let(TermWhnf(univ_u.term, whnf_t.arena), LAMBDA whnf_u :
              TermIMax(whnf_t.term, whnf_u.term, whnf_u.arena)))))

\* the Prod arm of Term::infer
InferProd(t, u, arena) ==
    Let(TraceErr(TermInfer(t, arena), "Left"), LAMBDA univ_t :
    IF ~univ_t.ok THEN univ_t
    ELSE Let(TraceErr(TermInfer(u, univ_t.arena), "Right"), LAMBDA univ_u :
         IF ~univ_u.ok THEN univ_u
         ELSE Let(TermWhnf(univ_t.term, univ_u.arena), LAMBDA whnf_t :
              Let(TermWhnf(univ_u.term, whnf_t.arena), LAMBDA whnf_u :
              TermIMax(whnf_t.term, whnf_u.term, whnf_u.arena)))))

\* the Abs arm of Term::infer
InferAbs(t, u, arena) ==
    Let(TraceErr(TermInfer(t, arena), "Left"), LAMBDA type_t :
    IF ~type_t.ok THEN type_t
    ELSE IF IsSort(type_t.arena, type_t.term)
         THEN Let(TraceErr(TermInfer(u, type_t.arena), "Right"), LAMBDA type_u :
              IF ~type_u.ok THEN type_u
              ELSE Let(TermProd(t, type_u.term, type_u.arena), LAMBDA prod :
                   Ok(prod.arena, prod.term)))
    ELSE TraceErr(Err(type_t.arena, ErrorNew("NotUniverse", <<type_t.term>>)), "Left"))

\* the App arm with a Right step put on the error of a rejected argument
InferAppTracesArgument(t, u, arena) ==
    Let(TraceErr(TermInfer(t, arena), "Left"), LAMBDA infer_t :
    IF ~infer_t.ok THEN infer_t
    ELSE Let(TermWhnf(infer_t.term, infer_t.arena), LAMBDA type_t :
         LET pt == TermDeref(type_t.arena, type_t.term)
         IN  IF pt.k = "Prod"
             THEN Let(TraceErr(TermInfer(u, type_t.arena), "Right"), LAMBDA type_u :
                  IF ~type_u.ok THEN type_u
                  ELSE Let(TermConversion(type_u.term, pt.a, type_u.arena), LAMBDA conv :
                       IF conv.b
                       THEN Let(TermSubstitute(pt.b, u, 1, conv.arena), LAMBDA subst :
                            Ok(subst.arena, subst.term))
                       ELSE TraceErr(Err(conv.arena,
                                         ErrorNew("WrongArgumentType",
                                                  <<t, pt.a, u, type_u.term>>)), "Right")))
             ELSE TraceErr(Err(type_t.arena,
                               ErrorNew("NotAFunction", <<t, type_t.term, u>>)), "Left")))

\* the App arm of Term::infer
InferApp(t, u, arena) ==
    Let(TraceErr(TermInfer(t, arena), "Left"), LAMBDA infer_t :
    IF ~infer_t.ok THEN infer_t
    ELSE Let(TermWhnf(infer_t.term, infer_t.arena), LAMBDA type_t :
         LET pt == TermDeref(type_t.arena, type_t.term)
         IN  IF pt.k = "Prod"
             THEN Let(TraceErr(TermInfer(u, type_t.arena), "Right"), LAMBDA type_u :
                  IF ~type_u.ok THEN type_u
                  ELSE Let(TermConversion(type_u.term, pt.a, type_u.arena), LAMBDA conv :
                       IF conv.b
                       THEN Let(TermSubstitute(pt.b, u, 1, conv.arena), LAMBDA subst :
                            Ok(subst.arena, subst.term))
                       ELSE Err(conv.arena,
                                ErrorNew("WrongArgumentType",
                                         <<t, pt.a, u, type_u.term>>))))
             ELSE TraceErr(Err(type_t.arena,
                               ErrorNew("NotAFunction", <<t, type_t.term, u>>)), "Left")))

\* Term::app(Term::app(Term::app(Eq.{u0}, Var(i)), Var(j)), Var(k)) with the
\* three variables of type sort_u
EqApplied(i, j, k, sort_u, arena) ==
    Let(LevelVar(0, arena), LAMBDA var0 :
    Let(TermAxiom("Eq_", <<var0.level>>, var0.arena), LAMBDA eq :
    Let(TermVar(i, sort_u, eq.arena), LAMBDA vi :
    Let(TermApp(eq.term, vi.term, vi.arena), LAMBDA app1 :
    Let(TermVar(j, sort_u, app1.arena), LAMBDA vj :
    Let(TermApp(app1.term, vj.term, vj.arena), LAMBDA app2 :
    Let(TermVar(k, sort_u, app2.arena), LAMBDA vk :
    TermApp(app2.term, vk.term, vk.arena))))))))

\* Equality::type_eq: (A : Sort u) -> A -> A -> Prop
TypeEq(arena) ==
    Let(LevelVar(0, arena), LAMBDA var0 :
    Let(TermSort(var0.level, var0.arena), LAMBDA sort_u :
    Let(TermSortUsize(0, sort_u.arena), LAMBDA prop :
    Let(TermVar(1, sort_u.term, prop.arena), LAMBDA v1 :
    Let(TermVar(2, sort_u.term, v1.arena), LAMBDA v2 :
    Let(TermProd(v2.term, prop.term, v2.arena), LAMBDA p3 :
    Let(TermProd(v1.term, p3.term, p3.arena), LAMBDA p2 :
    TermProd(sort_u.term, p2.term, p2.arena))))))))

\* motive : (b : A) -> Eq A a b -> Sort v
TypeMotive(sort_u, sort_v, arena) ==
    Let(TermVar(2, sort_u, arena), LAMBDA m_b :
    Let(EqApplied(3, 2, 1, sort_u, m_b.arena), LAMBDA m_eq :
    Let(TermProd(m_eq.term, sort_v, m_eq.arena), LAMBDA m_body :
    TermProd(m_b.term, m_body.term, m_body.arena))))

\* Refl A a
TypeReflA(sort_u, arena) ==
    Let(LevelVar(0, arena), LAMBDA r_var0 :
    Let(TermAxiom("Refl", <<r_var0.level>>, r_var0.arena), LAMBDA r_refl :
    Let(TermVar(3, sort_u, r_refl.arena), LAMBDA r_v3 :
    Let(TermApp(r_refl.term, r_v3.term, r_v3.arena), LAMBDA r_app :
    Let(TermVar(2, sort_u, r_app.arena), LAMBDA r_v2 :
    TermApp(r_app.term, r_v2.term, r_v2.arena))))))

\* motive a (Refl A a)
TypeMotiveReflA(motive, refl_a, sort_u, arena) ==
    Let(TermVar(1, motive, arena), LAMBDA a_m :
    Let(TermVar(2, sort_u, a_m.arena), LAMBDA a_v2 :
    Let(TermApp(a_m.term, a_v2.term, a_v2.arena), LAMBDA a_app :
    TermApp(a_app.term, refl_a, a_app.arena))))

\* motive b p, under the binders of b and of p : Eq A a b
TypeMotiveAtBP(motive, sort_u, arena) ==
    Let(TermVar(4, motive, arena), LAMBDA b_m :
    Let(TermVar(2, sort_u, b_m.arena), LAMBDA b_v2 :
    Let(TermApp(b_m.term, b_v2.term, b_v2.arena), LAMBDA b_app :
    Let(EqApplied(6, 5, 2, sort_u, b_app.arena), LAMBDA b_pty :
    Let(TermVar(1, b_pty.term, b_pty.arena), LAMBDA b_p :
    TermApp(b_app.term, b_p.term, b_p.arena))))))

\* (b : A) -> (p : Eq A a b) -> motive b p
TypeMotiveBP(motive, sort_u, arena) ==
    Let(TermVar(4, sort_u, arena), LAMBDA b_b :
    Let(EqApplied(5, 4, 1, sort_u, b_b.arena), LAMBDA b_eq :
    Let(TypeMotiveAtBP(motive, sort_u, b_eq.arena), LAMBDA b_res :
    Let(TermProd(b_eq.term, b_res.term, b_res.arena), LAMBDA b_body :
    TermProd(b_b.term, b_body.term, b_body.arena)))))

\* the two sorts of type_eq_rec: Sort u and Sort v, `term` the pair of them
TypeSorts(arena) ==
    Let(LevelVar(0, arena), LAMBDA var0 :
    Let(TermSort(var0.level, var0.arena), LAMBDA sort_u :
    Let(LevelVar(1, sort_u.arena), LAMBDA var1 :
    Let(TermSort(var1.level, var1.arena), LAMBDA sort_v :
    TermRet(sort_v.arena, <<sort_u.term, sort_v.term>>)))))

\* Equality::type_eq_rec: (A : Sort u) -> (a : A) ->
\* (motive : (b : A) -> Eq A a b -> Sort v) -> motive a (Refl A a) ->
\* (b : A) -> (p : Eq A a b) -> motive b p
TypeEqRecOf(sort_u, motive, motive_refl_a, motive_b_p, arena) ==
    Let(TermVar(1, sort_u, arena), LAMBDA e_a :
    Let(TermProd(motive_refl_a, motive_b_p, e_a.arena), LAMBDA e_p4 :
    Let(TermProd(motive, e_p4.term, e_p4.arena), LAMBDA e_p3 :
    Let(TermProd(e_a.term, e_p3.term, e_p3.arena), LAMBDA e_p2 :
    TermProd(sort_u, e_p2.term, e_p2.arena)))))

TypeEqRec(arena) ==
    Let(TypeSorts(arena), LAMBDA sorts :
    Let(TypeMotive(sorts.term[1], sorts.term[2], sorts.arena), LAMBDA motive :
    Let(TypeReflA(sorts.term[1], motive.arena), LAMBDA refl_a :
    Let(TypeMotiveReflA(motive.term, refl_a.term, sorts.term[1], refl_a.arena),
        LAMBDA motive_refl_a :
    Let(TypeMotiveBP(motive.term, sorts.term[1], motive_refl_a.arena), LAMBDA motive_b_p :
    TypeEqRecOf(sorts.term[1], motive.term, motive_refl_a.term, motive_b_p.term,
                motive_b_p.arena))))))

\* Equality::type_refl: (A : Sort u) -> (a : A) -> Eq A a a
TypeRefl(arena) ==
    Let(LevelVar(0, arena), LAMBDA var0 :
    Let(TermSort(var0.level, var0.arena), LAMBDA sort_u :
    Let(EqApplied(2, 1, 1, sort_u.term, sort_u.arena), LAMBDA eq_refl :
    Let(TermVar(1, sort_u.term, eq_refl.arena), LAMBDA v1 :
    Let(TermProd(v1.term, eq_refl.term, v1.arena), LAMBDA p2 :
    TermProd(sort_u.term, p2.term, p2.arena))))))

\* Equality::get_type
EqualityGetType(self, arena) ==
    CASE self = "Eq_" -> TypeEq(arena)
      [] self = "EqRec" -> TypeEqRec(arena)
      [] self = "Refl" -> TypeRefl(arena)

\* False::type_false_rec: (P : Sort u) -> False -> P
TypeFalseRec(arena) ==
    Let(LevelVar(0, arena), LAMBDA var0 :
    Let(TermSort(var0.level, var0.arena), LAMBDA sort_u :
    Let(TermAxiom("False", <<>>, sort_u.arena), LAMBDA false_ :
    Let(TermVar(2, sort_u.term, false_.arena), LAMBDA p :
    Let(TermProd(false_.term, p.term, p.arena), LAMBDA arrow :
    TermProd(sort_u.term, arrow.term, arrow.arena))))))

\* False::get_type: False is a proposition, False_rec its eliminator
FalseGetType(self, arena) ==
    CASE self = "False" -> TermSortUsize(0, arena)
      [] self = "FalseRec" -> TypeFalseRec(arena)

\* Axiom::get_type: the type the schema of the axiom gives it
AxiomGetType(self, arena) ==
    IF self \in {"False", "FalseRec"} THEN FalseGetType(self, arena)
    ELSE EqualityGetType(self, arena)

\* the Axiom arm of Term::infer: the type of the axiom at the levels it is given
InferAxiom(ax, lvl, arena) ==
    Let(AxiomGetType(ax, arena), LAMBDA ty :
    Let(TermSubstituteUnivs(ty.term, lvl, ty.arena), LAMBDA subst :
    Ok(subst.arena, subst.term)))

\* InstantiatedDeclaration::get_type_or_try_init, with Term::infer for f: the
\* type of the body, kept in the type cell of the body, with the universe
\* variables replaced by the parameters
DeclGetTypeOrTryInit(decl, arena) ==
    Let(TermInfer(arena.alloc_decls[decl].payload.decl.term, arena), LAMBDA type_ :
    IF ~type_.ok THEN type_
    ELSE Let(TermSubstituteUnivs(type_.term, arena.alloc_decls[decl].payload.params,
                                 type_.arena), LAMBDA subst :
         Ok(subst.arena, subst.term)))

\* infer that never fills the type slot of the term
TermInferForgets(self, arena) ==
    LET p == TermDeref(arena, self)
    IN  IF arena.alloc_terms[self].type_ # 0
        THEN Ok(arena, arena.alloc_terms[self].type_)
        ELSE CASE p.k = "Sort" -> InferSort(p.a, arena)
               [] p.k = "Var" -> Ok(arena, p.b)
               [] p.k = "Prod" -> InferProd(p.a, p.b, arena)
               [] p.k = "Abs" -> InferAbs(p.a, p.b, arena)
               [] p.k = "App" -> InferApp(p.a, p.b, arena)
               [] p.k = "Axiom" -> InferAxiom(p.a, p.b, arena)
               [] p.k = "Decl" -> DeclGetTypeOrTryInit(p.a, arena)

\* infer that leaves in the type slot the normal form of the type it returns
TermInferCachesWhnf(self, arena) ==
    LET p == TermDeref(arena, self)
        Cache(res) == IF res.ok
                      THEN Let(TermWhnf(res.term, res.arena), LAMBDA w :
                           Ok(SetType(w.arena, self, w.term), res.term))
                      ELSE res
    IN  IF arena.alloc_terms[self].type_ # 0
        THEN Ok(arena, arena.alloc_terms[self].type_)
        ELSE CASE p.k = "Sort" -> Cache(InferSort(p.a, arena))
               [] p.k = "Var" -> Cache(Ok(arena, p.b))
               [] p.k = "Prod" -> Cache(InferProd(p.a, p.b, arena))
               [] p.k = "Abs" -> Cache(InferAbs(p.a, p.b, arena))
               [] p.k = "App" -> Cache(InferApp(p.a, p.b, arena))
               [] p.k = "Axiom" -> Cache(InferAxiom(p.a, p.b, arena))
               [] p.k = "Decl" -> Cache(DeclGetTypeOrTryInit(p.a, arena))

\* Term::infer: the type cell when it is filled, else the type computed from the
\* payload, written to the cell when the computation succeeds
TermInfer(self, arena) ==
    LET p == TermDeref(arena, self)
        Cache(res) == IF res.ok THEN Ok(SetType(res.arena, self, res.term), res.term)
                      ELSE res
    IN  IF arena.alloc_terms[self].type_ # 0
        THEN Ok(arena, arena.alloc_terms[self].type_)
        ELSE CASE p.k = "Sort" -> Cache(InferSort(p.a, arena))
               [] p.k = "Var" -> Cache(Ok(arena, p.b))
               [] p.k = "Prod" -> Cache(InferProd(p.a, p.b, arena))
               [] p.k = "Abs" -> Cache(InferAbs(p.a, p.b, arena))
               [] p.k = "App" -> Cache(InferApp(p.a, p.b, arena))
               [] p.k = "Axiom" -> Cache(InferAxiom(p.a, p.b, arena))
               [] p.k = "Decl" -> Cache(DeclGetTypeOrTryInit(p.a, arena))

\* check reporting a type mismatch for a term that has no type
TermCheckHidesInferError(self, ty, arena) ==
    Let(TermInfer(self, arena), LAMBDA tty :
    IF ~tty.ok THEN Err(tty.arena, ErrorNew("TypeMismatch", <<self, ty>>))
    ELSE Let(TermConversion(tty.term, ty, tty.arena), LAMBDA conv :
         IF conv.b THEN UnitOk(conv.arena)
         ELSE Err(conv.arena, ErrorNew("TypeMismatch", <<tty.term, ty>>))))

\* Term::check
TermCheck(self, ty, arena) ==
    Let(TermInfer(self, arena), LAMBDA tty :
    IF ~tty.ok THEN tty
    ELSE Let(TermConversion(tty.term, ty, tty.arena), LAMBDA conv :
         IF conv.b THEN UnitOk(conv.arena)
         ELSE Err(conv.arena, ErrorNew("TypeMismatch", <<tty.term, ty>>))))

\* Declaration::infer: the type of the term of the declaration is inferred
\* and not returned
DeclarationInfer(self, arena) ==
    Let(TermInfer(self.term, arena), LAMBDA type_ :
    IF ~type_.ok THEN type_ ELSE UnitOk(type_.arena))

\* Declaration::check
DeclarationCheck(self, ty, arena) == TermCheck(self.term, ty.term, arena)

-----------------------------------------------------------------------------
(* Name tables: memory/arena.rs *)

\* line 126 when it keeps a binding the name already has
ArenaBindKeepsFirst(arena, name, t) ==
    IF name \in DOMAIN arena.named_terms THEN arena
    ELSE [arena EXCEPT !.named_terms = MapInsert(@, name, t)]

\* Arena::bind
ArenaBind(arena, name, t) ==
    [arena EXCEPT !.named_terms = MapInsert(@, name, t)]

\* line 134 without its test: the body is bound whatever the arity
ArenaBindDeclAlways(arena, name, decl) ==
    ArenaBind([arena EXCEPT !.named_decls = MapInsert(@, name, decl)], name, decl.term)

\* lines 134-136 left out: the body of a declaration without parameters is not bound
ArenaBindDeclOnly(arena, name, decl) ==
    [arena EXCEPT !.named_decls = MapInsert(@, name, decl)]

\* Arena::bind_decl
ArenaBindDecl(arena, name, decl) ==
    LET bound == [arena EXCEPT !.named_decls = MapInsert(@, name, decl)]
    IN  IF decl.arity = 0 THEN ArenaBind(bound, name, decl.term) ELSE bound

\* Arena::get_binding
GetBinding(arena, name) ==
    IF name \in DOMAIN arena.named_terms THEN Some(arena.named_terms[name]) ELSE None

\* Arena::get_binding_decl
GetBindingDecl(arena, name) ==
    IF name \in DOMAIN arena.named_decls THEN Some(arena.named_decls[name]) ELSE None

-----------------------------------------------------------------------------
(* Raw builders: memory/term/builder.rs, memory/level/builder.rs *)

\* the names under which the axioms of equality and of falsity are declared
AxiomNames == {"Eq", "Eq_rec", "Refl", "False", "False_rec"}

\* line 34 with the arity of Eq_rec taken from the declaration of Eq
AppendToNamedAxiomsOneUniverse(arena) ==
    Let(LevelVar(0, arena), LAMBDA var0 :
    Let(LevelVar(1, var0.arena), LAMBDA var1 :
    Let(TermAxiom("Eq_", <<var0.level>>, var1.arena), LAMBDA eq :
    Let(ArenaBindDecl(eq.arena, "Eq", Declaration(eq.term, 1)), LAMBDA a1 :
    Let(TermAxiom("EqRec", <<var0.level, var1.level>>, a1), LAMBDA rec :
    Let(ArenaBindDecl(rec.arena, "Eq_rec", Declaration(rec.term, 1)), LAMBDA a2 :
    Let(TermAxiom("Refl", <<var0.level>>, a2), LAMBDA refl :
    ArenaBindDecl(refl.arena, "Refl", Declaration(refl.term, 1)))))))))

\* Equality::append_to_named_axioms
AppendToNamedAxioms(arena) ==
    Let(LevelVar(0, arena), LAMBDA var0 :
    Let(LevelVar(1, var0.arena), LAMBDA var1 :
    Let(TermAxiom("Eq_", <<var0.level>>, var1.arena), LAMBDA eq :
    Let(ArenaBindDecl(eq.arena, "Eq", Declaration(eq.term, 1)), LAMBDA a1 :
    Let(TermAxiom("EqRec", <<var0.level, var1.level>>, a1), LAMBDA rec :
    Let(ArenaBindDecl(rec.arena, "Eq_rec", Declaration(rec.term, 2)), LAMBDA a2 :
    Let(TermAxiom("Refl", <<var0.level>>, a2), LAMBDA refl :
    ArenaBindDecl(refl.arena, "Refl", Declaration(refl.term, 1)))))))))

\* False::append_to_named_axioms: False has no universe variable, False_rec one
FalseAppendToNamedAxioms(arena) ==
    Let(LevelVar(0, arena), LAMBDA var0 :
    Let(TermAxiom("False", <<>>, var0.arena), LAMBDA false_ :
    Let(ArenaBindDecl(false_.arena, "False", Declaration(false_.term, 0)), LAMBDA a1 :
    Let(TermAxiom("FalseRec", <<var0.level>>, a1), LAMBDA rec :
    ArenaBindDecl(rec.arena, "False_rec", Declaration(rec.term, 1))))))

\* Axiom::add_named_axioms: every schema exports its axioms, equality then
\* falsity; the schema of the natural numbers is left out of this build
AddNamedAxioms(arena) == FalseAppendToNamedAxioms(AppendToNamedAxioms(arena))

\* the arena use_arena hands to its continuation
UseArena == ArenaNew

\* the arena use_arena_with_axioms hands to its continuation
UseArenaWithAxioms == AddNamedAxioms(UseArena)

\* an expression handed to build_term_raw or build_level_raw: the builder k,
\* its number n (index, level) and its sub-expressions s
Raw(k, n, s) == [k |-> k, n |-> n, s |-> s]

RZero == Raw("zero", 0, <<>>)
RSucc(l) == Raw("succ", 0, <<l>>)
RUniv(id) == Raw("var", id, <<>>)
RMax(l, r) == Raw("max", 0, <<l, r>>)
RIMax(l, r) == Raw("imax", 0, <<l, r>>)

RProp == Raw("prop", 0, <<>>)
RType(n) == Raw("type_usize", n, <<>>)
RSort(l) == Raw("sort_", 0, <<l>>)
RVar(index, type_) == Raw("var", index, <<type_>>)
RApp(u1, u2) == Raw("app", 0, <<u1, u2>>)
RAbs(u1, u2) == Raw("abs", 0, <<u1, u2>>)
RProd(u1, u2) == Raw("prod", 0, <<u1, u2>>)
\* Term::decl(InstantiatedDeclaration::instantiate(Declaration(body, 0), &[], arena), arena)
RDecl(body) == Raw("decl", 0, <<body>>)
\* Term::axiom(Axiom::Equality(axiom), &[levels], arena)
RAxiom(axiom, lvl) == Raw("axiom_", axiom, lvl)

\* Arena::build_level_raw
RECURSIVE BuildLevelRaw(_, _)
BuildLevelRaw(e, arena) ==
    CASE e.k = "zero" -> LevelZero(arena)
      [] e.k = "succ" ->
            Let(BuildLevelRaw(e.s[1], arena), LAMBDA l : LevelSucc(l.level, l.arena))
      [] e.k = "var" -> LevelVar(e.n, arena)
      [] e.k = "max" ->
            Let(BuildLevelRaw(e.s[1], arena), LAMBDA l :
            Let(BuildLevelRaw(e.s[2], l.arena), LAMBDA r :
            LevelMax(l.level, r.level, r.arena)))
      [] e.k = "imax" ->
            Let(BuildLevelRaw(e.s[1], arena), LAMBDA l :
            Let(BuildLevelRaw(e.s[2], l.arena), LAMBDA r :
            LevelIMax(l.level, r.level, r.arena)))

\* Arena::build_term_raw
RECURSIVE BuildTermRaw(_, _)
BuildTermRaw(e, arena) ==
    CASE e.k = "prop" -> TermProp(arena)
      [] e.k = "type_usize" -> TermTypeUsize(e.n, arena)
      [] e.k = "sort_" ->
            Let(BuildLevelRaw(e.s[1], arena), LAMBDA lvl : TermSort(lvl.level, lvl.arena))
      [] e.k = "var" ->
            Let(BuildTermRaw(e.s[1], arena), LAMBDA ty : TermVar(e.n, ty.term, ty.arena))
      [] e.k = "app" ->
            Let(BuildTermRaw(e.s[1], arena), LAMBDA u1 :
            Let(BuildTermRaw(e.s[2], u1.arena), LAMBDA u2 :
            TermApp(u1.term, u2.term, u2.arena)))
      [] e.k = "abs" ->
            Let(BuildTermRaw(e.s[1], arena), LAMBDA u1 :
            Let(BuildTermRaw(e.s[2], u1.arena), LAMBDA u2 :
            TermAbs(u1.term, u2.term, u2.arena)))
      [] e.k = "prod" ->
            Let(BuildTermRaw(e.s[1], arena), LAMBDA u1 :
            Let(BuildTermRaw(e.s[2], u1.arena), LAMBDA u2 :
            TermProd(u1.term, u2.term, u2.arena)))
      [] e.k = "decl" ->
            Let(BuildTermRaw(e.s[1], arena), LAMBDA body :
            Let(Instantiate(Declaration(body.term, 0), <<>>, body.arena), LAMBDA decl_ :
            TermDecl(decl_.term, decl_.arena)))
      [] e.k = "axiom_" /\ Len(e.s) = 0 -> TermAxiom(e.n, <<>>, arena)
      [] e.k = "axiom_" /\ Len(e.s) = 1 ->
            Let(BuildLevelRaw(e.s[1], arena), LAMBDA l1 :
            TermAxiom(e.n, <<l1.level>>, l1.arena))
      [] e.k = "axiom_" /\ Len(e.s) = 2 ->
            Let(BuildLevelRaw(e.s[1], arena), LAMBDA l1 :
            Let(BuildLevelRaw(e.s[2], l1.arena), LAMBDA l2 :
            TermAxiom(e.n, <<l1.level, l2.level>>, l2.arena)))

\* fun x: Prop => x
RId == RAbs(RProp, RVar(1, RProp))

\* (fun x: Type 1 => x) Type 0, of type Type 1 and weak-head normal form Type 0
RRedex == RApp(RAbs(RType(1), RVar(1, RType(1))), RType(0))

\* the expressions the sessions build: sorts; products and abstractions over
\* a sort, a proposition, a function (which is no type) and a variable whose
\* type is a sort only after reduction, with a sort, a proof or a function as
\* body; applications, well-typed and ill-typed
RawSorts == {RProp, RType(0), RSort(RUniv(0)), RSort(RIMax(RSucc(RZero), RUniv(0)))}

RawTypes == {RProp, RType(0), RVar(1, RProp), RId, RVar(1, RRedex)}

RawBodies == {RProp, RVar(1, RProp), RId}

RawApps ==
    {RRedex, RApp(RProp, RProp), RApp(RId, RProp), RApp(RId, RVar(1, RProp)),
     RAbs(RProp, RApp(RProp, RProp))}

\* a declaration of body Prop and one whose body has no type; the axioms Refl
\* at a closed level and False
RawDecls ==
    {RDecl(RProp), RDecl(RApp(RProp, RProp)),
     RAxiom("Refl", <<RSucc(RZero)>>), RAxiom("False", <<>>)}

RawTerms ==
    RawSorts
    \cup RawDecls
    \cup {RProd(a, b) : a \in RawTypes, b \in RawBodies}
    \cup {RAbs(a, b) : a \in RawTypes, b \in RawBodies}
    \cup RawApps

Names == {"x", "y"}

-----------------------------------------------------------------------------
(* The calls a client makes, and the record of the last one. *)

-----------------------------------------------------------------------------
(* Builders with names: memory/term/builder.rs *)

\* a closure of the builder module: the builder k, its name, its number n and
\* the closures s it is made of
Named(k, name, n, s) == [k |-> k, name |-> name, n |-> n, s |-> s]

BVar(name) == Named("var", name, 0, <<>>)
BProp == Named("prop", "", 0, <<>>)
BType(n) == Named("type_usize", "", n, <<>>)
BApp(u1, u2) == Named("app", "", 0, <<u1, u2>>)
BAbs(name, arg_type, body) == Named("abs", name, 0, <<arg_type, body>>)
BProd(name, arg_type, body) == Named("prod", name, 0, <<arg_type, body>>)
BType_(level) == Named("type_", "", 0, <<level>>)
BSort(level) == Named("sort", "", 0, <<level>>)
BSortUsize(n) == Named("sort_usize", "", n, <<>>)
BDecl(decl) == Named("decl", "", 0, <<decl>>)

\* the closures of level::builder a term closure takes: a numeral, a universe
\* variable by its name, the maximum of two levels
LConst(n) == Named("const", "", n, <<>>)
LVar(name) == Named("var", name, 0, <<>>)
LMax(l, r) == Named("max", "", 0, <<l, r>>)

\* the closure of declaration::builder a term closure takes: the declaration
\* bound to a name, instantiated with the levels of the closures `levels`
DInstance(name, levels) == Named("instance", name, 0, levels)

\* the call of a level closure on (arena, lvl_env): `term` of the result is
\* the level
RECURSIVE LevelBuilder(_, _, _)
LevelBuilder(e, lvl_env, arena) ==
    CASE e.k = "const" -> Let(LevelFrom(e.n, arena), LAMBDA l : Ok(l.arena, l.level))
      [] e.k = "var" ->
            IF e.name \in DOMAIN lvl_env
            THEN Let(LevelVar(lvl_env[e.name], arena), LAMBDA l : Ok(l.arena, l.level))
            ELSE Err(arena, ErrorNew("VarNotFound", <<e.name>>))
      [] e.k = "max" ->
            Let(LevelBuilder(e.s[1], lvl_env, arena), LAMBDA l :
            IF ~l.ok THEN l
            ELSE Let(LevelBuilder(e.s[2], lvl_env, l.arena), LAMBDA r :
                 IF ~r.ok THEN r
                 ELSE Let(LevelMax(l.term, r.term, r.arena), LAMBDA m :
                      Ok(m.arena, m.level))))

\* the levels of a sequence of level closures, built from left to right:
\* `term` of the result is their sequence, or the first error is returned
RECURSIVE LevelsBuilder(_, _, _)
LevelsBuilder(levels, lvl_env, arena) ==
    IF levels = <<>> THEN Ok(arena, <<>>)
    ELSE Let(LevelBuilder(Head(levels), lvl_env, arena), LAMBDA l :
         IF ~l.ok THEN l
         ELSE Let(LevelsBuilder(Tail(levels), lvl_env, l.arena), LAMBDA rest :
              IF ~rest.ok THEN rest
              ELSE Ok(rest.arena, <<l.term>> \o rest.term)))

\* the call of a declaration closure on (arena, lvl_env): the declaration of
\* the name, instantiated with as many levels as it has universe parameters;
\* `term` of the result is the instantiated declaration
DeclBuilder(e, lvl_env, arena) ==
    IF ~GetBindingDecl(arena, e.name).some
    THEN Err(arena, ErrorNew("UnknownDeclaration", <<e.name>>))
    ELSE Let(LevelsBuilder(e.s, lvl_env, arena), LAMBDA levels :
         IF ~levels.ok THEN levels
         ELSE IF GetBindingDecl(arena, e.name).v.arity # Len(levels.term)
         THEN Err(levels.arena,
                  ErrorNew("IncorrectVariableNumber",
                           <<GetBindingDecl(arena, e.name).v.arity, Len(levels.term)>>))
         ELSE Let(Instantiate(GetBindingDecl(arena, e.name).v, levels.term, levels.arena),
                  LAMBDA inst :
              Ok(inst.arena, inst.term)))

\* an entry of the Environment: the depth a name was bound at, and its type
Bound(depth, term) == [depth |-> depth, term |-> term]

\* lines 73-74 the other way round: the name table of the arena is asked first
BuilderVarGlobalFirst(name, env, depth, arena) ==
    IF GetBinding(arena, name).some THEN Ok(arena, GetBinding(arena, name).v)
    ELSE IF name \in DOMAIN env
    THEN Let(TermShift(env[name].term, depth - env[name].depth, 0, arena), LAMBDA var_type :
         Let(TermVar(depth - env[name].depth, var_type.term, var_type.arena), LAMBDA v :
         Ok(v.arena, v.term)))
    ELSE Err(arena, ErrorNew("ConstNotFound", <<name>>))

\* line 70 left out: the variable is given the type of its binder as it was
\* built, at the depth of the binder
BuilderVarKeepsType(name, env, depth, arena) ==
    IF name \in DOMAIN env
    THEN Let(TermVar(depth - env[name].depth, env[name].term, arena), LAMBDA v :
         Ok(v.arena, v.term))
    ELSE IF GetBinding(arena, name).some THEN Ok(arena, GetBinding(arena, name).v)
    ELSE Err(arena, ErrorNew("ConstNotFound", <<name>>))

\* builder::var
BuilderVar(name, env, depth, arena) ==
    IF name \in DOMAIN env
    THEN Let(TermShift(env[name].term, depth - env[name].depth, 0, arena), LAMBDA var_type :
         Let(TermVar(depth - env[name].depth, var_type.term, var_type.arena), LAMBDA v :
         Ok(v.arena, v.term)))
    ELSE IF GetBinding(arena, name).some THEN Ok(arena, GetBinding(arena, name).v)
    ELSE Err(arena, ErrorNew("ConstNotFound", <<name>>))

\* the environment the body of a binder is built in (lines 136-141, 157-162)
BodyEnv(name, env, depth, arg_type) ==
    IF name = "_" THEN env ELSE MapInsert(env, name, Bound(depth, arg_type))

\* the call of a closure on (arena, env, lvl_env, depth): builder::var, prop,
\* type_, type_usize, sort, sort_usize, app, abs, prod and decl
RECURSIVE Builder(_, _, _, _, _)
Builder(e, env, lvl_env, depth, arena) ==
    CASE e.k = "prop" -> Let(TermProp(arena), LAMBDA t : Ok(t.arena, t.term))
      [] e.k = "type_" ->
            Let(LevelBuilder(e.s[1], lvl_env, arena), LAMBDA level :
            IF ~level.ok THEN level
            ELSE Let(LevelSucc(level.term, level.arena), LAMBDA succ :
                 Let(TermSort(succ.level, succ.arena), LAMBDA t :
                 Ok(t.arena, t.term))))
      [] e.k = "type_usize" -> Let(TermTypeUsize(e.n, arena), LAMBDA t : Ok(t.arena, t.term))
      [] e.k = "sort" ->
            Let(LevelBuilder(e.s[1], lvl_env, arena), LAMBDA level :
            IF ~level.ok THEN level
            ELSE Let(TermSort(level.term, level.arena), LAMBDA t :
                 Ok(t.arena, t.term)))
      [] e.k = "sort_usize" -> Let(TermSortUsize(e.n, arena), LAMBDA t : Ok(t.arena, t.term))
      [] e.k = "var" -> BuilderVar(e.name, env, depth, arena)
      [] e.k = "app" ->
            Let(TraceErr(Builder(e.s[1], env, lvl_env, depth, arena), "Left"), LAMBDA u1 :
            IF ~u1.ok THEN u1
            ELSE Let(TraceErr(Builder(e.s[2], env, lvl_env, depth, u1.arena), "Right"),
                     LAMBDA u2 :
                 IF ~u2.ok THEN u2
                 ELSE Let(TermApp(u1.term, u2.term, u2.arena), LAMBDA t :
                      Ok(t.arena, t.term))))
      [] e.k \in {"abs", "prod"} ->
            Let(TraceErr(Builder(e.s[1], env, lvl_env, depth, arena), "Left"),
                LAMBDA arg_type :
            IF ~arg_type.ok THEN arg_type
            ELSE Let(TraceErr(Builder(e.s[2], BodyEnv(e.name, env, depth, arg_type.term),
                                      lvl_env, depth + 1, arg_type.arena), "Right"),
                     LAMBDA body :
                 IF ~body.ok THEN body
                 ELSE Let(IF e.k = "abs" THEN TermAbs(arg_type.term, body.term, body.arena)
                          ELSE TermProd(arg_type.term, body.term, body.arena), LAMBDA t :
                      Ok(t.arena, t.term))))
      [] e.k = "decl" ->
            Let(DeclBuilder(e.s[1], lvl_env, arena), LAMBDA decl :
            IF ~decl.ok THEN decl
            ELSE Let(TermDecl(decl.term, decl.arena), LAMBDA t :
                 Ok(t.arena, t.term)))

\* Arena::build: the closure is called with empty environments, at depth 0
ArenaBuild(e, arena) == Builder(e, EmptyFn, EmptyFn, 0, arena)

\* the closures the sessions build: a name alone, under binders of the same
\* and of other names, in the type of a binder, in an application, and `_`
NamedExprs ==
    {BVar("x"),
     BAbs("x", BProp, BVar("x")),
     BAbs("x", BProp, BAbs("x", BVar("x"), BVar("x"))),
     BAbs("x", BProp, BAbs("y", BProp, BVar("x"))),
     BAbs("y", BProp, BVar("x")),
     BAbs("_", BProp, BVar("_")),
     BAbs("x", BProp, BAbs("_", BVar("x"), BVar("x"))),
     BProd("x", BProp, BApp(BVar("x"), BVar("y"))),
     BApp(BVar("y"), BProp),
     BAbs("x", BVar("y"), BProp),
     BProd("x", BType(0), BProd("y", BVar("x"), BVar("y")))}

\* the closures of sorts the sessions build: sorts from a number and from
\* level closures, one of them on a universe variable no environment binds
SortExprs ==
    {BSortUsize(1),
     BType_(LConst(0)),
     BSort(LMax(LConst(1), LConst(0))),
     BSort(LMax(LConst(0), LVar("u")))}

\* the closures of declarations the sessions over the axioms build: Refl,
\* Eq_rec and False_rec at closed levels, Refl with no level, a name that is
\* not declared, and Eq at a universe variable no environment binds
DeclExprs ==
    {BDecl(DInstance("Refl", <<LConst(0)>>)),
     BDecl(DInstance("False_rec", <<LConst(0)>>)),
     BDecl(DInstance("Eq_rec", <<LConst(0), LConst(1)>>)),
     BDecl(DInstance("Refl", <<>>)),
     BDecl(DInstance("z", <<>>)),
     BDecl(DInstance("Eq", <<LVar("u")>>))}

MaxNamed == 1

\* the level handles a client can hold: those a constructor has returned
Levels == Range(hashcons_levels)

NoCall == [op |-> "none", a |-> 0, b |-> 0, ret |-> 0]
Call(op, a, b, ret) == [op |-> op, a |-> a, b |-> b, ret |-> ret]

\* the arithmetic value of a closed level expression
MaxOf(x, y) == IF x < y THEN y ELSE x
IMaxOf(x, y) == IF y = 0 THEN 0 ELSE MaxOf(x, y)

\* the values recorded for a level so far
ValuesOf(level) == IF level \in DOMAIN numerals THEN numerals[level] ELSE {}

\* `values` recorded as values of the expressions built to `level`
Record(level, values) ==
    IF values = {} THEN numerals
    ELSE MapInsert(numerals, level, ValuesOf(level) \cup values)

NoBindings == [terms |-> EmptyFn, decls |-> EmptyFn, prev |-> None]

Init ==
    /\ alloc_levels = ArenaNew.alloc_levels
    /\ hashcons_levels = ArenaNew.hashcons_levels
    /\ alloc_terms = ArenaNew.alloc_terms
    /\ hashcons_terms = ArenaNew.hashcons_terms
    /\ alloc_decls = ArenaNew.alloc_decls
    /\ hashcons_decls = ArenaNew.hashcons_decls
    /\ named_decls = ArenaNew.named_decls
    /\ named_terms = ArenaNew.named_terms
    /\ mem_subst = ArenaNew.mem_subst
    /\ last = NoCall
    /\ held = {}
    /\ built = {}
    /\ numerals = EmptyFn
    /\ bindings = NoBindings

LevelRoom == Len(alloc_levels) < MaxLevelNodes

CallLevelZero ==
    /\ LevelRoom
    /\ \E r \in {LevelZero(Arena)} :
           /\ Commit(r.arena)
           /\ last' = Call("zero", 0, 0, r.level)
           /\ numerals' = Record(r.level, {0})
           /\ UNCHANGED <<held, built, bindings>>

CallLevelVar ==
    \E id \in 0 .. MaxUnivVar - 1 :
        /\ LevelRoom
        /\ \E r \in {LevelVar(id, Arena)} :
               /\ Commit(r.arena)
               /\ last' = Call("var", id, 0, r.level)
               /\ numerals' = numerals
               /\ UNCHANGED <<held, built, bindings>>

CallLevelSucc ==
    \E l \in Levels :
        /\ LevelRoom
        /\ \E r \in {LevelSucc(l, Arena)} :
               /\ Commit(r.arena)
               /\ last' = Call("succ", l, 0, r.level)
               /\ numerals' = Record(r.level, {x + 1 : x \in ValuesOf(l)})
               /\ UNCHANGED <<held, built, bindings>>

CallLevelAdd ==
    \E l \in Levels, n \in 0 .. MaxOffset :
        /\ LevelRoom
        /\ \E r \in {LevelAdd(l, n, Arena)} :
               /\ Commit(r.arena)
               /\ last' = Call("add", l, n, r.level)
               /\ numerals' = Record(r.level, {x + n : x \in ValuesOf(l)})
               /\ UNCHANGED <<held, built, bindings>>

CallLevelMax ==
    \E l \in Levels, right \in Levels :
        /\ LevelRoom
        /\ \E r \in {LevelMax(l, right, Arena)} :
               /\ Commit(r.arena)
               /\ last' = Call("max", l, right, r.level)
               /\ numerals' = Record(r.level,
                      {MaxOf(x, y) : x \in ValuesOf(l), y \in ValuesOf(right)})
               /\ UNCHANGED <<held, built, bindings>>

CallLevelIMax ==
    \E l \in Levels, right \in Levels :
        /\ LevelRoom
        /\ \E r \in {LevelIMax(l, right, Arena)} :
               /\ Commit(r.arena)
               /\ last' = Call("imax", l, right, r.level)
               /\ numerals' = Record(r.level,
                      {IMaxOf(x, y) : x \in ValuesOf(l), y \in ValuesOf(right)})
               /\ UNCHANGED <<held, built, bindings>>

NextLevel ==
    \/ CallLevelZero
    \/ CallLevelVar
    \/ CallLevelSucc
    \/ CallLevelAdd
    \/ CallLevelMax
    \/ CallLevelIMax

\* a session of level constructor calls on one arena
SpecLevel == Init /\ [][NextLevel]_vars

\* what a call returned, without the arena
Result(r) == [ok |-> r.ok, term |-> r.term, err |-> r.err]

\* the handles the client holds once it is handed `term`
Hold(term) == IF Cardinality(held) < MaxHeld THEN held \cup {term} ELSE held

\* the client builds at most MaxBuilt expressions, any number of times each
MayBuild(e) == Cardinality(built \cup {e}) <= MaxBuilt

CallBuildTermRaw ==
    \E e \in RawTerms :
        /\ MayBuild(e)
        /\ \E r \in {BuildTermRaw(e, Arena)} :
               /\ Commit(r.arena)
               /\ last' = Call("build_term_raw", e, 0, r.term)
               /\ held' = Hold(r.term)
               /\ built' = built \cup {e}
               /\ UNCHANGED <<numerals, bindings>>

CallInfer ==
    \E t \in held :
        \E r \in {TermInfer(t, Arena)} :
            /\ Commit(r.arena)
            /\ last' = Call("infer", t, 0, Result(r))
            /\ held' = IF r.ok THEN Hold(r.term) ELSE held
            /\ UNCHANGED <<built, numerals, bindings>>

CallCheck ==
    \E t \in held, ty \in held :
        \E r \in {TermCheck(t, ty, Arena)} :
            /\ Commit(r.arena)
            /\ last' = Call("check", t, ty, Result(r))
            /\ UNCHANGED <<held, built, numerals, bindings>>

Next ==
    \/ CallBuildTermRaw
    \/ CallInfer

\* a session of type inference: terms are built and their types inferred
Spec == Init /\ [][Next]_vars

CallBuildSort ==
    \E e \in RawSorts :
        /\ MayBuild(e)
        /\ \E r \in {BuildTermRaw(e, Arena)} :
               /\ Commit(r.arena)
               /\ last' = Call("build_term_raw", e, 0, r.term)
               /\ held' = Hold(r.term)
               /\ built' = built \cup {e}
               /\ UNCHANGED <<numerals, bindings>>

CallBind ==
    \E name \in Names, t \in held :
        /\ Commit(ArenaBind(Arena, name, t))
        /\ last' = Call("bind", name, t, 0)
        /\ bindings' = [bindings EXCEPT !.terms = MapInsert(@, name, t),
                                        !.prev = GetBinding(Arena, name)]
        /\ UNCHANGED <<held, built, numerals>>

CallBindDecl ==
    \E name \in Names, t \in held, arity \in 0 .. MaxArity :
        /\ Commit(ArenaBindDecl(Arena, name, Declaration(t, arity)))
        /\ last' = Call("bind_decl", name, Declaration(t, arity), 0)
        /\ bindings' = [bindings EXCEPT
                          !.decls = MapInsert(@, name, Declaration(t, arity)),
                          !.terms = IF arity = 0 THEN MapInsert(@, name, t) ELSE @,
                          !.prev = GetBinding(Arena, name)]
        /\ UNCHANGED <<held, built, numerals>>

CallGetBinding ==
    \E name \in Names :
        /\ last' = Call("get_binding", name, 0, GetBinding(Arena, name))
        /\ UNCHANGED <<alloc_levels, hashcons_levels, alloc_terms, hashcons_terms,
                       alloc_decls, hashcons_decls, named_decls, named_terms, mem_subst, held, built, numerals, bindings>>

CallGetBindingDecl ==
    \E name \in Names :
        /\ last' = Call("get_binding_decl", name, 0, GetBindingDecl(Arena, name))
        /\ UNCHANGED <<alloc_levels, hashcons_levels, alloc_terms, hashcons_terms,
                       alloc_decls, hashcons_decls, named_decls, named_terms, mem_subst, held, built, numerals, bindings>>

\* Arena::build on the closures type_, sort and sort_usize
CallBuildSortExpr ==
    \E e \in SortExprs :
        /\ MayBuild(e)
        /\ \E r \in {ArenaBuild(e, Arena)} :
               /\ Commit(r.arena)
               /\ last' = Call("build", e, 0, Result(r))
               /\ held' = IF r.ok THEN Hold(r.term) ELSE held
               /\ built' = built \cup {e}
               /\ UNCHANGED <<numerals, bindings>>

NextSort ==
    \/ CallBuildSort
    \/ CallBuildSortExpr
    \/ CallInfer
    \/ CallCheck

\* a session on sorts: they are built, inferred and checked against each other
SpecSort == Init /\ [][NextSort]_vars

\* the terms a session of checks builds: typed ones and ones that have no type
RawChecked ==
    {RProp, RType(0), RId, RApp(RId, RProp), RApp(RProp, RProp),
     RAbs(RProp, RApp(RProp, RProp)), RDecl(RProp),
     RAxiom("EqRec", <<RZero, RSucc(RZero)>>), RAxiom("FalseRec", <<RZero>>)}

CallBuildChecked ==
    \E e \in RawChecked :
        /\ MayBuild(e)
        /\ \E r \in {BuildTermRaw(e, Arena)} :
               /\ Commit(r.arena)
               /\ last' = Call("build_term_raw", e, 0, r.term)
               /\ held' = Hold(r.term)
               /\ built' = built \cup {e}
               /\ UNCHANGED <<numerals, bindings>>

NextCheck ==
    \/ CallBuildChecked
    \/ CallInfer
    \/ CallCheck

\* a session of checks: terms are built, their types inferred and checked
SpecCheck == Init /\ [][NextCheck]_vars

CallWhnf ==
    \E t \in held :
        \E r \in {TermWhnf(t, Arena)} :
            /\ Commit(r.arena)
            /\ last' = Call("whnf", t, 0, r.term)
            /\ held' = Hold(r.term)
            /\ UNCHANGED <<built, numerals, bindings>>

CallIsDefEq ==
    \E t \in held, u \in held :
        \E r \in {TermIsDefEq(t, u, Arena)} :
            /\ Commit(r.arena)
            /\ last' = Call("is_def_eq", t, u, Result(r))
            /\ UNCHANGED <<held, built, numerals, bindings>>

\* the terms a session of queries builds: their types need reduction
RawQueried ==
    {RRedex, RApp(RId, RProp), RApp(RId, RVar(1, RProp)), RAbs(RVar(1, RRedex), RProp),
     RApp(RDecl(RId), RProp)}

CallBuildQueried ==
    \E e \in RawQueried :
        /\ MayBuild(e)
        /\ \E r \in {BuildTermRaw(e, Arena)} :
               /\ Commit(r.arena)
               /\ last' = Call("build_term_raw", e, 0, r.term)
               /\ held' = Hold(r.term)
               /\ built' = built \cup {e}
               /\ UNCHANGED <<numerals, bindings>>

NextQueries ==
    \/ CallBuildQueried
    \/ CallInfer
    \/ CallWhnf
    \/ CallCheck
    \/ CallIsDefEq

\* a session of queries: infer, whnf, check and is_def_eq in any order
SpecQueries == Init /\ [][NextQueries]_vars

\* a term that has no type: Prop applied to Prop
RBad == RApp(RProp, RProp)

\* the terms a session of failing inferences builds: the fault lies in the
\* first or in the second component of a product, abstraction or application
RawFailing ==
    {RBad, RProd(RBad, RProp), RProd(RProp, RBad), RAbs(RBad, RProp), RAbs(RProp, RBad),
     RApp(RBad, RProp), RApp(RAbs(RProp, RProp), RBad), RProd(RProp, RAbs(RProp, RBad)),
     RAbs(RProp, RAbs(RProp, RBad)), RProd(RId, RProp), RApp(RId, RProp),
     RApp(RId, RVar(1, RProp)), RId, RProp}

CallBuildFailing ==
    \E e \in RawFailing :
        /\ MayBuild(e)
        /\ \E r \in {BuildTermRaw(e, Arena)} :
               /\ Commit(r.arena)
               /\ last' = Call("build_term_raw", e, 0, r.term)
               /\ held' = Hold(r.term)
               /\ built' = built \cup {e}
               /\ UNCHANGED <<numerals, bindings>>

NextErrors ==
    \/ CallBuildFailing
    \/ CallInfer
    \/ CallCheck

\* a session of failing inferences
SpecErrors == Init /\ [][NextErrors]_vars

\* the head of an application under two abstractions: tests::failed_app_head_conversion
RHeadUnder(index) ==
    RAbs(RType(0), RAbs(RType(0), RApp(RVar(index, RType(0)), RProp)))

\* a variable that is a proof: its type is a variable of type Prop
RProof(index) == RVar(index, RVar(1, RProp))

\* the terms a session of conversions compares
RawCompared ==
    {RProp, RProd(RProp, RProp), RProd(RType(0), RProp), RHeadUnder(1), RHeadUnder(2),
     RVar(1, RProp), RVar(1, RType(0)), RVar(2, RProp), RProof(1), RProof(2),
     RDecl(RProp), RDecl(RProd(RProp, RProp))}

CallBuildCompared ==
    \E e \in RawCompared :
        /\ Cardinality(built \cup {e}) <= MaxCompared
        /\ \E r \in {BuildTermRaw(e, Arena)} :
               /\ Commit(r.arena)
               /\ last' = Call("build_term_raw", e, 0, r.term)
               /\ held' = Hold(r.term)
               /\ built' = built \cup {e}
               /\ UNCHANGED <<numerals, bindings>>

NextConv ==
    \/ CallBuildCompared
    \/ CallIsDefEq

\* a session of conversions: terms are built and compared
SpecConv == Init /\ [][NextConv]_vars

\* the terms a session on the name tables binds
RawBound == {RProp, RType(0)}

CallBuildBound ==
    \E e \in RawBound :
        \E r \in {BuildTermRaw(e, Arena)} :
            /\ Commit(r.arena)
            /\ last' = Call("build_term_raw", e, 0, r.term)
            /\ held' = Hold(r.term)
            /\ built' = built \cup {e}
            /\ UNCHANGED <<numerals, bindings>>

\* Declaration::infer on a declaration of the arena
CallDeclarationInfer ==
    \E name \in DOMAIN named_decls :
        \E r \in {DeclarationInfer(named_decls[name], Arena)} :
            /\ Commit(r.arena)
            /\ last' = Call("declaration_infer", named_decls[name], 0, Result(r))
            /\ UNCHANGED <<held, built, numerals, bindings>>

\* Declaration::check on two declarations of the arena
CallDeclarationCheck ==
    \E name \in DOMAIN named_decls, ty \in DOMAIN named_decls :
        \E r \in {DeclarationCheck(named_decls[name], named_decls[ty], Arena)} :
            /\ Commit(r.arena)
            /\ last' = Call("declaration_check", named_decls[name], named_decls[ty],
                            Result(r))
            /\ UNCHANGED <<held, built, numerals, bindings>>

NextNames ==
    \/ CallBuildBound
    \/ CallBind
    \/ CallBindDecl
    \/ CallGetBinding
    \/ CallGetBindingDecl
    \/ CallDeclarationInfer
    \/ CallDeclarationCheck

\* a session on the name tables of one arena
SpecNames == Init /\ [][NextNames]_vars

-----------------------------------------------------------------------------
(* Claims about the level algebra, checked under SpecLevel. *)

\* use_arena: a new session starts on a new arena; the handles of the session
\* before are gone with its arena, while `bindings` goes on recording what the
\* client has bound so far
CallUseArena ==
    /\ Commit(UseArena)
    /\ last' = Call("use_arena", 0, 0, 0)
    /\ held' = {}
    /\ built' = {}
    /\ UNCHANGED <<numerals, bindings>>

CallUseArenaWithAxioms ==
    /\ Commit(UseArenaWithAxioms)
    /\ last' = Call("use_arena_with_axioms", 0, 0, 0)
    /\ held' = {}
    /\ built' = {}
    /\ UNCHANGED <<numerals, bindings>>

NextLifecycle ==
    \/ CallUseArena
    \/ CallUseArenaWithAxioms
    \/ CallBuildBound
    \/ CallBind
    \/ CallBindDecl

\* sessions one after the other, each on the arena use_arena or
\* use_arena_with_axioms gives it
SpecLifecycle == Init /\ [][NextLifecycle]_vars

CallBuild ==
    \E e \in NamedExprs :
        /\ Cardinality((built \cup {e}) \cap NamedExprs) <= MaxNamed
        /\ \E r \in {ArenaBuild(e, Arena)} :
               /\ Commit(r.arena)
               /\ last' = Call("build", e, 0, Result(r))
               /\ built' = built \cup {e}
               /\ UNCHANGED <<held, numerals, bindings>>

NextBuild ==
    \/ CallBuildBound
    \/ CallBind
    \/ CallBuild

\* a session of the builders with names: terms are bound to names and closures built
SpecBuild == Init /\ [][NextBuild]_vars

\* the axioms as the declarations of use_arena_with_axioms hold them
REqRec == Raw("axiom", "Eq_rec", <<>>)
RRefl == Raw("axiom", "Refl", <<>>)

\* the axioms as the builder hands them out: the declarations instantiated
RInstance(name, lvl) == Raw("instance", name, lvl)

\* Refl A' a', with A' = Type 1
RReflOf(a_) == RApp(RApp(RRefl, RType(1)), a_)

\* Eq_rec A a m r b, with A = Type 1, a = Type 0, m = Prop and r a redex
REqRec5(b) == RApp(RApp(RApp(RApp(RApp(REqRec, RType(1)), RType(0)), RProp), RRedex), b)

\* Eq_rec A a m r b p
REqRec6(b, p) == RApp(REqRec5(b), p)

\* the terms of a session on the eliminator: b the handle of a, a redex of
\* normal form a, or another sort; p Refl on a or on another term, a
\* variable, Refl with one argument, or a redex of normal form Refl A a;
\* the eliminator with five and with seven arguments, as the normal form of a
\* segment of the spine, and Refl in its place
RawElim ==
    {REqRec6(b, p) :
        b \in {RType(0), RRedex, RProp},
        p \in {RReflOf(RType(0)), RReflOf(RProp), RVar(1, RProp), RApp(RRefl, RType(1)),
               RApp(RId, RReflOf(RType(0)))}}
    \cup {REqRec5(RType(0)),
          RApp(REqRec6(RProp, RReflOf(RType(0))), RProp),
          RApp(RApp(RAbs(RType(1), REqRec5(RVar(1, RType(1)))), RType(0)), RReflOf(RType(0))),
          RApp(RApp(RApp(RApp(RApp(RReflOf(RType(0)), RProp), RRedex), RType(0)),
               RReflOf(RType(0))), RReflOf(RType(0))),
          RApp(RId, RRedex),
          RApp(RApp(RApp(RApp(RApp(RApp(RInstance("Eq_rec", <<RZero, RSucc(RZero)>>),
               RType(1)), RType(0)), RProp), RRedex), RType(0)),
               RApp(RApp(RInstance("Refl", <<RZero>>), RType(1)), RType(0)))}

\* the term of an expression over the axioms: a declared axiom is the term of
\* its declaration, the rest is built as build_term_raw builds it
RECURSIVE BuildElim(_, _)
BuildElim(e, arena) ==
    CASE e.k = "axiom" -> TermRet(arena, arena.named_decls[e.n].term)
      [] e.k = "instance" /\ Len(e.s) = 1 ->
            Let(BuildLevelRaw(e.s[1], arena), LAMBDA l1 :
            Let(Instantiate(l1.arena.named_decls[e.n], <<l1.level>>, l1.arena), LAMBDA d :
            TermDecl(d.term, d.arena)))
      [] e.k = "instance" /\ Len(e.s) = 2 ->
            Let(BuildLevelRaw(e.s[1], arena), LAMBDA l1 :
            Let(BuildLevelRaw(e.s[2], l1.arena), LAMBDA l2 :
            Let(Instantiate(l2.arena.named_decls[e.n], <<l1.level, l2.level>>, l2.arena),
                LAMBDA d :
            TermDecl(d.term, d.arena))))
      [] e.k \in {"app", "abs", "var"} ->
            Let(BuildElim(e.s[1], arena), LAMBDA u1 :
            IF e.k = "var" THEN TermVar(e.n, u1.term, u1.arena)
            ELSE Let(BuildElim(e.s[2], u1.arena), LAMBDA u2 :
                 IF e.k = "app" THEN TermApp(u1.term, u2.term, u2.arena)
                 ELSE TermAbs(u1.term, u2.term, u2.arena)))
      [] OTHER -> BuildTermRaw(e, arena)

\* a session that starts in use_arena_with_axioms
InitAxioms ==
    /\ alloc_levels = UseArenaWithAxioms.alloc_levels
    /\ hashcons_levels = UseArenaWithAxioms.hashcons_levels
    /\ alloc_terms = UseArenaWithAxioms.alloc_terms
    /\ hashcons_terms = UseArenaWithAxioms.hashcons_terms
    /\ alloc_decls = UseArenaWithAxioms.alloc_decls
    /\ hashcons_decls = UseArenaWithAxioms.hashcons_decls
    /\ named_decls = UseArenaWithAxioms.named_decls
    /\ named_terms = UseArenaWithAxioms.named_terms
    /\ mem_subst = UseArenaWithAxioms.mem_subst
    /\ last = NoCall
    /\ held = {}
    /\ built = {}
    /\ numerals = EmptyFn
    /\ bindings = NoBindings

CallBuildElim ==
    \E e \in RawElim :
        /\ MayBuild(e)
        /\ \E r \in {BuildElim(e, Arena)} :
               /\ Commit(r.arena)
               /\ last' = Call("build_term_raw", e, 0, r.term)
               /\ held' = Hold(r.term)
               /\ built' = built \cup {e}
               /\ UNCHANGED <<numerals, bindings>>

CallReduce ==
    \E t \in held :
        \E r \in {EqualityReduce(t, Arena)} :
            /\ Commit(r.arena)
            /\ last' = Call("reduce", t, 0, [some |-> r.some, term |-> r.term])
            /\ UNCHANGED <<held, built, numerals, bindings>>

\* Arena::build on the closure decl, over the declarations of the axioms
CallBuildDeclExpr ==
    \E e \in DeclExprs :
        /\ MayBuild(e)
        /\ \E r \in {ArenaBuild(e, Arena)} :
               /\ Commit(r.arena)
               /\ last' = Call("build", e, 0, Result(r))
               /\ held' = IF r.ok THEN Hold(r.term) ELSE held
               /\ built' = built \cup {e}
               /\ UNCHANGED <<numerals, bindings>>

NextElim ==
    \/ CallBuildElim
    \/ CallBuildDeclExpr
    \/ CallReduce
    \/ CallWhnf

\* a session on the eliminator of equality: terms are built over the axioms,
\* reduced by Equality::reduce and by whnf
SpecElim == InitAxioms /\ [][NextElim]_vars

LevelOps == {"zero", "var", "succ", "add", "max", "imax"}

\* the payload the last level constructor call handed to Level::hashcons
LastPayload ==
    CASE last.op = "zero" -> Zero
      [] last.op = "var" -> LevelPayload("Var", last.a, 0)
      [] last.op = "succ" -> LevelPayload("Add", last.a, 1)
      [] last.op = "add" -> LevelPayload("Add", last.a, last.b)
      [] last.op = "max" -> LevelPayload("Max", last.a, last.b)
      [] last.op = "imax" -> LevelPayload("IMax", last.a, last.b)
      [] OTHER -> Zero

\* C2: Level::hashcons is idempotent and returns a fixed point of normalize:
\* the call just made, made again, returns the same handle and leaves the arena as
\* it is; interning again the payload of any handle a constructor returned, or
\* normalizing that handle again, returns the handle itself.
C2_HashconsIdempotentFixedPoint ==
    /\ last.op \in LevelOps =>
          LevelHashcons(LastPayload, Arena) = LevelRet(Arena, last.ret)
    /\ \A l \in Levels :
          /\ LevelHashcons(LevelDeref(Arena, l), Arena) = LevelRet(Arena, l)
          /\ LevelNormalize(l, Arena) = LevelRet(Arena, l)

\* a call whose payload was not reduced: the handle returned is another node
C2_Witness ==
    /\ last.op \in {"add", "max", "imax"}
    /\ LevelDeref(Arena, last.ret) # LastPayload
    /\ LevelDeref(Arena, last.ret).k \in {"Add", "Max"}
    /\ hashcons_levels[LastPayload] = last.ret

\* C3: imax(L, 0) is the level 0, for every L, variables included: the handle
\* returned is the handle of Zero and its to_numeral is Some(0).
C3_IMaxZeroIsZero ==
    (last.op = "imax" /\ LevelDeref(Arena, last.b) = Zero) =>
        /\ last.ret = last.b
        /\ LevelDeref(Arena, last.ret) = Zero
        /\ ToNumeral(Arena, last.ret) = Some(0)

\* imax(L, 0) was built with a universe variable in L
C3_Witness ==
    /\ last.op = "imax"
    /\ LevelDeref(Arena, last.b) = Zero
    /\ HasVar(Arena, last.a)
    /\ ToNumeral(Arena, last.ret) = Some(0)

\* the reduced form of one node
IsReduced(arena, level) ==
    LET p == LevelDeref(arena, level)
        pu == LevelDeref(arena, p.a)
        pv == LevelDeref(arena, p.b)
    IN  CASE p.k = "Add" -> p.b # 0 /\ pu.k # "Add"
          [] p.k = "Max" ->
                /\ p.a # p.b
                /\ pu.k # "Zero" /\ pv.k # "Zero"
                /\ ~(pu.k = "Add" /\ pv.k = "Add")
          [] p.k = "IMax" -> p.a # p.b /\ pv.k = "Var"
          [] OTHER -> TRUE

\* C4: every level a constructor returned, and every level below it, is reduced.
C4_ReducedForm ==
    \A l \in Levels : \A s \in SubLevels(Arena, l) : IsReduced(Arena, s)

\* an imax over a stuck imax was distributed into a max that holds an IMax node
C4_Witness ==
    /\ last.op = "imax"
    /\ LevelDeref(Arena, last.b).k \in {"IMax", "Max"}
    /\ LevelDeref(Arena, last.ret).k = "Max"
    /\ \E s \in SubLevels(Arena, last.ret) : LevelDeref(Arena, s).k = "IMax"

\* C5: a level built from zero, succ/add, max and imax alone is the numeral of its
\* arithmetic value; a level with a universe variable under an Add, Max or IMax
\* has no numeral.
C5_ClosedLevelsAreNumerals ==
    /\ \A l \in DOMAIN numerals : \A n \in numerals[l] : ToNumeral(Arena, l) = Some(n)
    /\ \A l \in Levels :
          (LevelDeref(Arena, l).k \in {"Add", "Max", "IMax"} /\ HasVar(Arena, l)) =>
              ToNumeral(Arena, l) = None

\* max of two different closed levels was built, and a level Add(Var, n) exists
C5_Witness ==
    /\ last.op \in {"max", "imax"}
    /\ last.a # last.b
    /\ ValuesOf(last.a) # {} /\ ValuesOf(last.b) # {}
    /\ ToNumeral(Arena, last.ret) = Some(2)
    /\ 2 \in ValuesOf(last.ret)


-----------------------------------------------------------------------------
(* Claims about terms and their types, checked under Spec and SpecSort. *)

\* the tree a term handle stands for, levels kept as handles
RECURSIVE TermTree(_)
TermTree(t) ==
    LET p == alloc_terms[t].payload
    IN  CASE p.k = "Sort" -> <<"Sort", p.a>>
          [] p.k = "Var" -> <<"Var", p.a, TermTree(p.b)>>
          [] p.k = "Decl" -> <<"Decl", p.a>>
          [] p.k = "Axiom" -> <<"Axiom", p.a, p.b>>
          [] OTHER -> <<p.k, TermTree(p.a), TermTree(p.b)>>

\* C1: the arena never holds two term nodes with equal payloads, so two term
\* handles are equal exactly when their payloads are, and two handles that
\* stand for the same tree are the same handle; every node is registered in
\* hashcons_terms, whatever its header has cached since
C1_InterningUnique ==
    /\ \A i, j \in DOMAIN alloc_terms :
           /\ (i = j) <=> (alloc_terms[i].payload = alloc_terms[j].payload)
           /\ TermTree(i) = TermTree(j) => i = j
    /\ hashcons_terms = DOMAIN alloc_terms

\* an expression is built again after its root has had its type cached: the
\* constructor hands out the node it finds
C1_Witness ==
    /\ last.op = "build_term_raw"
    /\ alloc_terms[last.ret].type_ # 0
    /\ alloc_terms[last.ret].payload.k = "Prod"

SortLevel(t) == alloc_terms[t].payload.a

\* C8: infer(Sort(L)) succeeds with Sort(L + 1), and check(Sort(L), Sort(L))
\* fails with TypeMismatch
C8_UniverseHierarchy ==
    /\ (last.op = "infer" /\ IsSort(Arena, last.a)) =>
           /\ last.ret.ok
           /\ IsSort(Arena, last.ret.term)
           /\ SortLevel(last.ret.term) = LevelSucc(SortLevel(last.a), Arena).level
           /\ ToNumeral(Arena, SortLevel(last.a)) # None =>
                  ToNumeral(Arena, SortLevel(last.ret.term))
                      = Some(ToNumeral(Arena, SortLevel(last.a)).v + 1)
    /\ (last.op = "check" /\ IsSort(Arena, last.a) /\ last.b = last.a) =>
           /\ ~last.ret.ok
           /\ last.ret.err.kind = "TypeMismatch"

\* a sort over a universe variable has been checked against itself
C8_Witness ==
    /\ last.op = "check"
    /\ last.b = last.a
    /\ IsSort(Arena, last.a)
    /\ HasVar(Arena, SortLevel(last.a))
    /\ ~last.ret.ok

IsKind(t, k) == alloc_terms[t].payload.k = k

\* the type the arena has cached for t, were infer called on it now
InferNow(t) == TermInfer(t, Arena)

\* the weak-head normal form of the type of t
SortOf(t) == TermWhnf(InferNow(t).term, Arena)

\* C9: when infer(A) and infer(B) succeed, infer(Prod(A, B)) is
\* Sort(imax(l1, l2)) if the weak-head normal forms of the two types are
\* Sort(l1) and Sort(l2); otherwise it fails with NotUniverse on the normal
\* form that is no sort, A's first, with step Left for A's and Right for B's
C9_ProductTyping ==
    (last.op = "infer" /\ IsKind(last.a, "Prod")) =>
        LET A == alloc_terms[last.a].payload.a
            B == alloc_terms[last.a].payload.b
            wa == SortOf(A).term
            wb == SortOf(B).term
            lvl == LevelIMax(SortLevel(wa), SortLevel(wb), Arena)
        IN  (InferNow(A).ok /\ InferNow(B).ok) =>
                IF IsKind(wa, "Sort") /\ IsKind(wb, "Sort")
                THEN /\ last.ret.ok
                     /\ IsKind(last.ret.term, "Sort")
                     /\ SortLevel(last.ret.term) = lvl.level
                ELSE /\ ~last.ret.ok
                     /\ last.ret.err.kind = "NotUniverse"
                     /\ last.ret.err.terms = <<IF IsKind(wa, "Sort") THEN wb ELSE wa>>
                     /\ last.ret.err.trace = <<IF IsKind(wa, "Sort") THEN "Right" ELSE "Left">>

\* a product has been typed whose bound variable has a type that is a sort
\* only after reduction
C9_Witness ==
    /\ last.op = "infer"
    /\ IsKind(last.a, "Prod")
    /\ last.ret.ok
    /\ ~IsKind(InferNow(alloc_terms[last.a].payload.a).term, "Sort")

\* C10 as the specification states it: infer(Abs(A, b)) is Prod(A, infer(b))
\* whenever infer(A) succeeds with a type whose weak-head normal form is a
\* sort and infer(b) succeeds
C10_AbsTyping ==
    (last.op = "infer" /\ IsKind(last.a, "Abs")) =>
        LET A == alloc_terms[last.a].payload.a
            b == alloc_terms[last.a].payload.b
        IN  (InferNow(A).ok /\ IsKind(SortOf(A).term, "Sort") /\ InferNow(b).ok) =>
                /\ last.ret.ok
                /\ alloc_terms[last.ret.term].payload = TermPayload("Prod", A, InferNow(b).term)

\* the type of A is an application that reduces to a sort, the body is typed,
\* and infer(Abs(A, b)) has failed with NotUniverse on the unreduced type
C10_Witness ==
    /\ last.op = "infer"
    /\ IsKind(last.a, "Abs")
    /\ LET A == alloc_terms[last.a].payload.a
           b == alloc_terms[last.a].payload.b
       IN  /\ InferNow(A).ok
           /\ IsKind(InferNow(A).term, "App")
           /\ IsKind(SortOf(A).term, "Sort")
           /\ InferNow(b).ok
           /\ last.ret.err = [kind |-> "NotUniverse", terms |-> <<InferNow(A).term>>,
                              trace |-> <<"Left">>]

-----------------------------------------------------------------------------
(* Claims about the name tables, checked under SpecNames. *)

\* what a lookup in a record of bindings gives
Lookup(map, name) == IF name \in DOMAIN map THEN Some(map[name]) ELSE None

\* C6: get_binding(name) is the term of the most recent bind on name, the one
\* bind_decl makes for a declaration without parameters included, and
\* get_binding_decl(name) the declaration of the most recent bind_decl on
\* name, None when there was no such call; a call on one name leaves the
\* lookups of the other names as they were
C6_LookupIsMostRecent ==
    /\ \A name \in Names :
           /\ GetBinding(Arena, name) = Lookup(bindings.terms, name)
           /\ GetBindingDecl(Arena, name) = Lookup(bindings.decls, name)
    /\ last.op = "get_binding" => last.ret = Lookup(bindings.terms, last.a)
    /\ last.op = "get_binding_decl" => last.ret = Lookup(bindings.decls, last.a)

\* a name is looked up whose declaration has no parameters and whose term was
\* bound again since, to another term, while the other name has no binding
C6_Witness ==
    /\ last.op = "get_binding"
    /\ last.a \in DOMAIN named_decls
    /\ named_decls[last.a].arity = 0
    /\ last.ret # Some(named_decls[last.a].term)
    /\ \E other \in Names \ {last.a} : other \notin DOMAIN named_terms

\* C7: right after bind_decl(name, Declaration(t, 0)), get_binding_decl(name)
\* is that declaration and get_binding(name) is t, whatever term was bound to
\* name before
C7_BindDeclBindsBoth ==
    (last.op = "bind_decl" /\ last.b.arity = 0) =>
        /\ GetBindingDecl(Arena, last.a) = Some(last.b)
        /\ GetBinding(Arena, last.a) = Some(last.b.term)

\* a declaration without parameters has been bound to a name that had another term
C7_Witness ==
    /\ last.op = "bind_decl"
    /\ last.b.arity = 0
    /\ bindings.prev # None
    /\ bindings.prev # Some(last.b.term)

-----------------------------------------------------------------------------
(* Claims about applications, check and the caches of the type checker. *)

\* the parts of the application that infer was last called on
AppFun == alloc_terms[last.a].payload.a
AppArg == alloc_terms[last.a].payload.b

\* C11: when infer(f) and infer(a) succeed, infer(App(f, a)) is
\* substitute(B, a, 1) if the weak-head normal form of infer(f) is Prod(A, B)
\* and infer(a) converts with A; it is NotAFunction(f : whnf(infer f), a) with
\* the one step Left if that normal form is no product, and
\* WrongArgumentType(f, A, a : infer(a)) with no step if infer(a) does not
\* convert with A
C11_ApplicationTyping ==
    (last.op = "infer" /\ IsKind(last.a, "App")) =>
        LET f == AppFun
            a == AppArg
            tf == InferNow(f)
            ta == InferNow(a)
            w == SortOf(f).term
            A == alloc_terms[w].payload.a
            B == alloc_terms[w].payload.b
        IN  (tf.ok /\ ta.ok) =>
                IF ~IsKind(w, "Prod")
                THEN last.ret = [ok |-> FALSE, term |-> 0,
                                 err |-> [kind |-> "NotAFunction", terms |-> <<f, w, a>>,
                                          trace |-> <<"Left">>]]
                ELSE IF TermConversion(ta.term, A, Arena).b
                THEN /\ last.ret.ok
                     /\ last.ret.term = TermSubstitute(B, a, 1, Arena).term
                ELSE last.ret = [ok |-> FALSE, term |-> 0,
                                 err |-> [kind |-> "WrongArgumentType",
                                          terms |-> <<f, A, a, ta.term>>,
                                          trace |-> <<>>]]

\* an application of a function to an argument of another type than its
\* domain has been rejected
C11_Witness ==
    /\ last.op = "infer"
    /\ IsKind(last.a, "App")
    /\ InferNow(AppFun).ok
    /\ InferNow(AppArg).ok
    /\ IsKind(SortOf(AppFun).term, "Prod")
    /\ ~last.ret.ok
    /\ last.ret.err.kind = "WrongArgumentType"

\* C12: check(t, T) succeeds exactly when infer(t) succeeds with a type that
\* converts with T; when infer(t) fails check returns that error, kind, terms
\* and trace unchanged; when the conversion fails it returns TypeMismatch with
\* an empty trace
C12_CheckFollowsInfer ==
    (last.op = "check") =>
        LET tty == InferNow(last.a)
        IN  IF ~tty.ok
            THEN last.ret = Result(tty)
            ELSE IF TermConversion(tty.term, last.b, Arena).b
            THEN last.ret.ok
            ELSE /\ ~last.ret.ok
                 /\ last.ret.err.kind = "TypeMismatch"
                 /\ last.ret.err.trace = <<>>

\* check has returned the error of infer, found two steps below the term
C12_Witness ==
    /\ last.op = "check"
    /\ ~InferNow(last.a).ok
    /\ last.ret.err.kind = "NotAFunction"
    /\ Len(last.ret.err.trace) = 2

\* the type slot of a term: 0 while it is empty
TypeSlot(t) == alloc_terms[t].type_

\* a failed infer(t) has left the slot of t empty, and infer(t) called again
\* returns the same error
FailedInferRetries ==
    (last.op = "infer" /\ ~last.ret.ok) =>
        /\ TypeSlot(last.a) = 0
        /\ Result(InferNow(last.a)) = last.ret

\* C13: a filled type slot never changes; infer(t) on a filled slot returns
\* the handle in it; a successful infer(t) leaves its result in the slot; a
\* failed infer(t) leaves the slot empty, and infer(t) called again returns
\* the same error
C13_WriteOnceTypeCache ==
    /\ [][\A t \in DOMAIN alloc_terms :
              /\ TypeSlot(t) # 0 => TypeSlot(t)' = TypeSlot(t)
              /\ (last'.op = "infer" /\ last'.a = t) =>
                     /\ TypeSlot(t) # 0 =>
                            last'.ret = [ok |-> TRUE, term |-> TypeSlot(t), err |-> NoError]
                     /\ last'.ret.ok => TypeSlot(t)' = last'.ret.term]_vars
    /\ []FailedInferRetries

\* infer has failed on a term, whose slot is empty while the slot of one of
\* its sub-terms has been filled on the way
C13_Witness ==
    /\ last.op = "infer"
    /\ ~last.ret.ok
    /\ TypeSlot(last.a) = 0
    /\ \E t \in DOMAIN alloc_terms : TypeSlot(t) # 0

\* the tree a level handle stands for in an arena
RECURSIVE LevelTreeIn(_, _)
LevelTreeIn(arena, l) ==
    LET p == arena.alloc_levels[l]
    IN  CASE p.k = "Zero" -> <<"Zero">>
          [] p.k = "Var" -> <<"Var", p.a>>
          [] p.k = "Add" -> <<"Add", LevelTreeIn(arena, p.a), p.b>>
          [] OTHER -> <<p.k, LevelTreeIn(arena, p.a), LevelTreeIn(arena, p.b)>>

\* the tree a term handle stands for in an arena
RECURSIVE TermTreeIn(_, _)
TermTreeIn(arena, t) ==
    LET p == arena.alloc_terms[t].payload
    IN  CASE p.k = "Sort" -> <<"Sort", LevelTreeIn(arena, p.a)>>
          [] p.k = "Var" -> <<"Var", p.a, TermTreeIn(arena, p.b)>>
          [] p.k = "Decl" ->
                LET d == arena.alloc_decls[p.a].payload
                IN  <<"Decl", TermTreeIn(arena, d.decl.term), d.decl.arity,
                      [i \in DOMAIN d.params |-> LevelTreeIn(arena, d.params[i])]>>
          [] p.k = "Axiom" ->
                <<"Axiom", p.a, [i \in DOMAIN p.b |-> LevelTreeIn(arena, p.b[i])]>>
          [] OTHER -> <<p.k, TermTreeIn(arena, p.a), TermTreeIn(arena, p.b)>>

\* what a caller sees of a result: the terms as trees, the kind and the trace
Observed(r) ==
    [ok |-> r.ok,
     term |-> IF r.term = 0 THEN <<>> ELSE TermTreeIn(r.arena, r.term),
     kind |-> r.err.kind,
     terms |-> [i \in DOMAIN r.err.terms |-> TermTreeIn(r.arena, r.err.terms[i])],
     trace |-> r.err.trace]

\* the arena with the same nodes and every cache of the terms empty
Cold(arena) ==
    [arena EXCEPT !.alloc_terms = [i \in DOMAIN @ |-> TermNode(@[i].payload)],
                  !.alloc_decls = [i \in DOMAIN @ |-> [@[i] EXCEPT !.term = 0]],
                  !.mem_subst = EmptyFn]

\* C14: whatever queries have filled the caches so far, infer(t) and
\* is_def_eq(t, u) return what they return on the same terms with every cache
\* empty
C14_MemoizationUnobservable ==
    /\ \A t \in held :
           Observed(TermInfer(t, Arena)) = Observed(TermInfer(t, Cold(Arena)))
    /\ \A t \in held, u \in held :
           Observed(TermIsDefEq(t, u, Arena)) = Observed(TermIsDefEq(t, u, Cold(Arena)))

\* infer has failed on a term after a query had filled the caches of its
\* sub-terms and the substitution table
C14_Witness ==
    /\ last.op = "infer"
    /\ ~last.ret.ok
    /\ mem_subst # EmptyFn
    /\ \E t \in DOMAIN alloc_terms : alloc_terms[t].whnf # 0
    /\ \E t \in DOMAIN alloc_terms : alloc_terms[t].type_ # 0

-----------------------------------------------------------------------------
(* Claims about the errors of the type checker. *)

Reverse(s) == [i \in 1 .. Len(s) |-> s[Len(s) + 1 - i]]

\* the descents from a term that has no type down to the sub-term at fault,
\* the first descent first: into the component whose inference fails, or else
\* the component that the error of the term itself points at; the type of a
\* declaration is the type of its body, and entering the body is no descent
RECURSIVE DescentPath(_)
DescentPath(t) ==
    LET p == alloc_terms[t].payload
        a == p.a
        b == p.b
        whnf_a == SortOf(a).term
    IN  IF p.k = "Decl" THEN DescentPath(alloc_decls[a].payload.decl.term)
        ELSE IF p.k \notin {"Prod", "Abs", "App"} THEN <<>>
        ELSE IF ~InferNow(a).ok THEN <<"Left">> \o DescentPath(a)
        ELSE CASE p.k = "Prod" ->
                     IF ~InferNow(b).ok THEN <<"Right">> \o DescentPath(b)
                     ELSE IF ~IsKind(whnf_a, "Sort") THEN <<"Left">>
                     ELSE <<"Right">>
               [] p.k = "Abs" ->
                     IF ~IsKind(InferNow(a).term, "Sort") THEN <<"Left">>
                     ELSE <<"Right">> \o DescentPath(b)
               [] p.k = "App" ->
                     IF ~IsKind(whnf_a, "Prod") THEN <<"Left">>
                     ELSE IF ~InferNow(b).ok THEN <<"Right">> \o DescentPath(b)
                     ELSE <<>>

\* C15 as the specification states it: the trace of an error of infer lists,
\* from its first element to its last, the descents from the root term down
\* to the sub-term at fault
C15_TraceFromRoot ==
    (last.op = "infer" /\ ~last.ret.ok) =>
        last.ret.err.trace = DescentPath(last.a)

\* infer has failed two descents below the root, a Right then a Left one,
\* and the trace it returns lists them in the order the error met them on its
\* way up, Left then Right: the order of C15 is not the one infer returns
C15_Witness ==
    /\ last.op = "infer"
    /\ ~last.ret.ok
    /\ DescentPath(last.a) = <<"Right", "Left">>
    /\ last.ret.err.trace = <<"Left", "Right">>

\* the component of the term whose failed inference makes infer of the term
\* fail: 1 for the first, 2 for the second, 0 when there is none
FailedComponent(t) ==
    LET p == alloc_terms[t].payload
    IN  IF p.k \notin {"Prod", "Abs", "App"} THEN 0
        ELSE IF ~InferNow(p.a).ok THEN 1
        ELSE IF p.k = "Abs" /\ ~IsKind(InferNow(p.a).term, "Sort") THEN 0
        ELSE IF p.k = "App" /\ ~IsKind(SortOf(p.a).term, "Prod") THEN 0
        ELSE IF ~InferNow(p.b).ok THEN 2
        ELSE 0

\* C16: when infer of a Prod, Abs or App fails because infer of a component
\* fails, the error is the error of the component, kind and terms unchanged,
\* its trace extended by one step: Left for the first component, Right for
\* the second
C16_ErrorPropagation ==
    (last.op = "infer" /\ FailedComponent(last.a) # 0) =>
        LET p == alloc_terms[last.a].payload
            first == FailedComponent(last.a) = 1
            inner == InferNow(IF first THEN p.a ELSE p.b).err
        IN  /\ ~last.ret.ok
            /\ last.ret.err.kind = inner.kind
            /\ last.ret.err.terms = inner.terms
            /\ last.ret.err.trace = Append(inner.trace, IF first THEN "Left" ELSE "Right")

\* infer of a product has failed on the error of its body, which the body
\* had from its own body
C16_Witness ==
    /\ last.op = "infer"
    /\ IsKind(last.a, "Prod")
    /\ FailedComponent(last.a) = 2
    /\ FailedComponent(alloc_terms[last.a].payload.b) = 2
    /\ Len(last.ret.err.trace) = 3

-----------------------------------------------------------------------------
(* Claims about conversion, checked under SpecConv. *)

\* C17: an is_def_eq(t, u) that fails returns NotDefEq(t, u), with its two
\* arguments in their order and an empty trace, however deep in t and u the
\* mismatch lies
C17_NotDefEqShape ==
    (last.op = "is_def_eq" /\ ~last.ret.ok) =>
        last.ret.err = [kind |-> "NotDefEq", terms |-> <<last.a, last.b>>, trace |-> <<>>]

\* two abstractions of abstractions have been found different, which they
\* are in the head of the application under them
C17_Witness ==
    /\ last.op = "is_def_eq"
    /\ ~last.ret.ok
    /\ IsKind(last.a, "Abs")
    /\ IsKind(last.b, "Abs")
    /\ IsKind(alloc_terms[last.a].payload.b, "Abs")
    /\ alloc_terms[last.a].payload.a = alloc_terms[last.b].payload.a

\* whether t.is_def_eq(u) succeeds on the arena as it is
DefEqNow(t, u) == TermIsDefEq(t, u, Arena).ok

\* C18 as the specification states it: for all terms t and u of the arena,
\* t.is_def_eq(t) succeeds, and t.is_def_eq(u) succeeds if and only if
\* u.is_def_eq(t) succeeds
C18_ConversionSymmetric ==
    \A t \in held, u \in held :
        /\ DefEqNow(t, t)
        /\ DefEqNow(t, u) <=> DefEqNow(u, t)

\* a proof has been found equal to a term that is no proof, which is found
\* different from it when the two are compared in the other order
C18_Witness ==
    /\ last.op = "is_def_eq"
    /\ last.ret.ok
    /\ last.a # last.b
    /\ ~TermIsRelevant(last.a, Arena).b
    /\ TermIsRelevant(last.b, Arena).b
    /\ ~DefEqNow(last.b, last.a)

\* the index of a variable
VarIndex(t) == alloc_terms[t].payload.a

\* C19 as the specification states it: Var(i, T1) and Var(j, T2) are
\* convertible if and only if i = j
C19_VarConversion ==
    (last.op = "is_def_eq" /\ IsKind(last.a, "Var") /\ IsKind(last.b, "Var")) =>
        (last.ret.ok <=> VarIndex(last.a) = VarIndex(last.b))

\* C19, amended: when Var(i, T1) is relevant, Var(i, T1) and Var(j, T2) are
\* convertible if and only if i = j, whatever T1 and T2; when Var(i, T1) is a
\* proof the two are convertible whatever i and j
C19_RelevantVarConversion ==
    (last.op = "is_def_eq" /\ IsKind(last.a, "Var") /\ IsKind(last.b, "Var")) =>
        IF TermIsRelevant(last.a, Arena).b
        THEN last.ret.ok <=> VarIndex(last.a) = VarIndex(last.b)
        ELSE last.ret.ok

\* two variables of the same index and of different types, the first no
\* proof, have been found convertible
C19_Witness ==
    /\ last.op = "is_def_eq"
    /\ IsKind(last.a, "Var")
    /\ IsKind(last.b, "Var")
    /\ TermIsRelevant(last.a, Arena).b
    /\ VarIndex(last.a) = VarIndex(last.b)
    /\ alloc_terms[last.a].payload.b # alloc_terms[last.b].payload.b
    /\ last.ret.ok

-----------------------------------------------------------------------------
(* Claims about the imax normalisation, checked under SpecLevel. *)

\* C27: Level normalization reduces imax(0, u) to u: for every level u, building
\* imax(zero, u) returns the handle of u.
C27_IMaxOfZeroIsRight ==
    (last.op = "imax" /\ LevelDeref(Arena, last.a) = Zero) => last.ret = last.b

\* imax(0, u) was built with u a universe variable, and an IMax node came back
C27_Witness ==
    /\ last.op = "imax"
    /\ LevelDeref(Arena, last.a) = Zero
    /\ LevelDeref(Arena, last.b).k = "Var"
    /\ LevelDeref(Arena, last.ret) = LevelPayload("IMax", last.a, last.b)

-----------------------------------------------------------------------------
(* Claims about the frame of the name tables, checked under SpecNames. *)

\* C29: bind(name, t) never changes the result of get_binding_decl for any
\* name, and bind_decl(name, d) with a declaration of arity 1 or more never
\* changes the result of get_binding for any name: a term bound earlier under
\* the same name stays visible to get_binding.
C29_NameTableFrame ==
    [][/\ last'.op = "bind" =>
              \A name \in Names :
                  GetBindingDecl(Arena, name)' = GetBindingDecl(Arena, name)
       /\ (last'.op = "bind_decl" /\ last'.b.arity >= 1) =>
              \A name \in Names :
                  GetBinding(Arena, name)' = GetBinding(Arena, name)]_vars

\* a declaration with a parameter has been bound to a name that has a term,
\* which is not the body of the declaration and is still what get_binding gives
C29_Witness ==
    /\ last.op = "bind_decl"
    /\ last.b.arity >= 1
    /\ bindings.prev # None
    /\ bindings.prev # Some(last.b.term)
    /\ GetBinding(Arena, last.a) = bindings.prev
    /\ GetBindingDecl(Arena, last.a) = Some(last.b)

-----------------------------------------------------------------------------
(* Claims about the report of a type mismatch, checked under SpecCheck. *)

\* the message of ErrorKind::TypeMismatch, `expected {_0}, got {_1}`: the term
\* printed after each of its two words
TypeMismatchDisplay(err) == [expected |-> err.terms[1], got |-> err.terms[2]]

\* C26: when check(t, T) fails because the inferred type of t is not
\* convertible with T, the TypeMismatch error reports T, the type passed to
\* check, as the expected type and infer(t) as the type that was got, both in
\* the order of its fields and in its message.
C26_MismatchLabels ==
    (last.op = "check" /\ ~last.ret.ok /\ last.ret.err.kind = "TypeMismatch") =>
        /\ last.ret.err.terms = <<last.b, InferNow(last.a).term>>
        /\ TypeMismatchDisplay(last.ret.err).expected = last.b
        /\ TypeMismatchDisplay(last.ret.err).got = InferNow(last.a).term

\* a check failed on a typed term whose type is another term than the one passed
C26_Witness ==
    /\ last.op = "check"
    /\ ~last.ret.ok
    /\ last.ret.err.kind = "TypeMismatch"
    /\ InferNow(last.a).ok
    /\ InferNow(last.a).term # last.b
    /\ TypeMismatchDisplay(last.ret.err).expected = InferNow(last.a).term
    /\ TypeMismatchDisplay(last.ret.err).got = last.b

-----------------------------------------------------------------------------
(* The read-eval-print loop's test for comments: proost/src/main.rs *)

MaxInput == 4

\* the characters of the inputs: a space, a slash, a letter and the
\* ideographic space U+3000, which is white space and three bytes in UTF-8
Chars == {" ", "/", "a", "U+3000"}

\* char::is_whitespace
IsWhitespace(c) == c \in {" ", "U+3000"}

\* the UTF-8 encoding of a character
Utf8(c) == IF c = "U+3000" THEN <<"E3", "80", "80">> ELSE <<c>>

\* the bytes of a str
RECURSIVE Bytes(_)
Bytes(input) == IF input = <<>> THEN <<>> ELSE Utf8(Head(input)) \o Bytes(Tail(input))

\* str::is_char_boundary
IsCharBoundary(bytes, index) ==
    \/ index = 0
    \/ index = Len(bytes)
    \/ index < Len(bytes) /\ bytes[index + 1] # "80"

\* Iterator::position over input.chars(): the number of characters before the
\* first one that is not white space
Position(input) ==
    LET found == {i \in 1 .. Len(input) : ~IsWhitespace(input[i])}
    IN  IF found = {} THEN None ELSE Some(SetMin(found) - 1)

\* what a call gives: a value, or a panic
Returns(value) == [panic |-> FALSE, value |-> value]
Panics == [panic |-> TRUE, value |-> FALSE]

\* input[begin..end], which panics out of the bounds of the str and off the
\* boundaries of its characters
Slice(bytes, begin, end) ==
    IF end > Len(bytes) \/ ~IsCharBoundary(bytes, begin) \/ ~IsCharBoundary(bytes, end)
    THEN Panics
    ELSE Returns(SubSeq(bytes, begin + 1, end))

\* is_command
IsCommand(input) ==
    LET pos == Position(input)
        bytes == Bytes(input)
    IN  IF ~pos.some THEN Returns(FALSE)
        ELSE IF Len(bytes) < 2 THEN Returns(TRUE)
        ELSE LET slice == Slice(bytes, pos.v, pos.v + 2)
             IN  IF slice.panic THEN Panics
                 ELSE Returns(slice.value # <<"/", "/">>)

\* the lines a user may type
Inputs == UNION {[1 .. n -> Chars] : n \in 0 .. MaxInput}

CallIsCommand ==
    \E input \in Inputs :
        /\ last' = Call("is_command", input, 0, IsCommand(input))
        /\ UNCHANGED <<alloc_levels, hashcons_levels, alloc_terms, hashcons_terms,
                       alloc_decls, hashcons_decls, named_decls, named_terms, mem_subst, held, built, numerals, bindings>>

NextRepl == CallIsCommand

\* the lines of a session of the toplevel, each tested by is_command
SpecRepl == Init /\ [][NextRepl]_vars

\* the input without its leading white space
RECURSIVE TrimStart(_)
TrimStart(input) ==
    IF input # <<>> /\ IsWhitespace(Head(input)) THEN TrimStart(Tail(input)) ELSE input

\* the line is a comment: its first two characters that are not white space are //
IsComment(input) ==
    LET rest == TrimStart(input)
    IN  Len(rest) >= 2 /\ rest[1] = "/" /\ rest[2] = "/"

\* C28: is_command never panics: for every input string it returns a boolean,
\* which is false when the string is empty, consists only of white space, or has
\* // as its first two characters that are not white space, and true otherwise.
C28_IsCommandTotal ==
    last.op = "is_command" =>
        /\ ~last.ret.panic
        /\ last.ret.value = (TrimStart(last.a) # <<>> /\ ~IsComment(last.a))

\* is_command has panicked on a line of two bytes, a space and a letter
C28_Witness ==
    /\ last.op = "is_command"
    /\ last.a = <<" ", "a">>
    /\ last.ret.panic

-----------------------------------------------------------------------------
(* Claims about the lifecycle of arenas, checked under SpecLifecycle. *)

\* the declaration bound to `name` is the axiom `axiom` of equality, over
\* `arity` universe variables
DeclaresAxiom(name, axiom, arity) ==
    LET found == GetBindingDecl(Arena, name)
    IN  /\ found.some
        /\ found.v.arity = arity
        /\ TermDeref(Arena, found.v.term).k = "Axiom"
        /\ TermDeref(Arena, found.v.term).a = axiom

\* C23: every call of use_arena hands the continuation a fresh arena whose name
\* tables are empty (every lookup returns None); use_arena_with_axioms hands an
\* arena in which, before the continuation runs, get_binding_decl returns a
\* declaration for each built-in equality name, with universe arity 1 for Eq,
\* 1 for Refl and 2 for Eq_rec.
C23_ArenaLifecycle ==
    /\ last.op = "use_arena" =>
          /\ Arena = ArenaNew
          /\ \A name \in Names \cup AxiomNames :
                 GetBinding(Arena, name) = None /\ GetBindingDecl(Arena, name) = None
    /\ last.op = "use_arena_with_axioms" =>
          /\ DeclaresAxiom("Eq", "Eq_", 1)
          /\ DeclaresAxiom("Refl", "Refl", 1)
          /\ DeclaresAxiom("Eq_rec", "EqRec", 2)

\* a session with the axioms has started after one in which the client bound
\* a term and a declaration; only the axioms are declared
C23_Witness ==
    /\ last.op = "use_arena_with_axioms"
    /\ DOMAIN bindings.terms # {}
    /\ DOMAIN bindings.decls # {}
    /\ DOMAIN named_decls = AxiomNames
    /\ DOMAIN named_terms = {"False"}

-----------------------------------------------------------------------------
(* Claims about the builders with names, checked under SpecBuild. *)

\* the positions of the var closures of a closure, each as the steps from the root
RECURSIVE VarPaths(_)
VarPaths(e) ==
    IF e.k = "var" THEN {<<>>}
    ELSE IF e.s = <<>> THEN {}
    ELSE {<<"Left">> \o p : p \in VarPaths(e.s[1])}
         \cup {<<"Right">> \o p : p \in VarPaths(e.s[2])}

\* the closure at a position of a closure
RECURSIVE ExprAt(_, _)
ExprAt(e, path) ==
    IF path = <<>> THEN e
    ELSE ExprAt(IF Head(path) = "Left" THEN e.s[1] ELSE e.s[2], Tail(path))

\* the term at a position of a term
RECURSIVE NodeAt(_, _)
NodeAt(t, path) ==
    IF path = <<>> THEN t
    ELSE NodeAt(IF Head(path) = "Left" THEN alloc_terms[t].payload.a
                ELSE alloc_terms[t].payload.b, Tail(path))

\* the binders whose body the position lies in, the outermost first, each
\* with its name and its own position `prefix \o ...`
RECURSIVE Crossed(_, _, _)
Crossed(e, path, prefix) ==
    IF path = <<>> THEN <<>>
    ELSE LET here == IF e.k \in {"abs", "prod"} /\ Head(path) = "Right"
                     THEN <<[name |-> e.name, at |-> prefix]>> ELSE <<>>
             sub == IF Head(path) = "Left" THEN e.s[1] ELSE e.s[2]
         IN  here \o Crossed(sub, Tail(path), Append(prefix, Head(path)))

\* the binders the var closure at `path` may refer to: those of its name
\* around it, as indices of Crossed; `_` is no name to refer to
Binders(e, path) ==
    LET crossed == Crossed(e, path, <<>>)
    IN  {i \in 1 .. Len(crossed) :
            crossed[i].name = ExprAt(e, path).name /\ crossed[i].name # "_"}

\* the first var closure, in the order of building, whose name no binder
\* around it and no binding of the arena gives
RECURSIVE FirstFree(_, _)
FirstFree(e, bound) ==
    CASE e.k = "var" ->
            IF e.name \in bound \/ e.name \in DOMAIN named_terms THEN None
            ELSE Some([name |-> e.name, path |-> <<>>])
      [] e.k \in {"app", "abs", "prod"} ->
            LET left == FirstFree(e.s[1], bound)
                inner == IF e.k = "app" \/ e.name = "_" THEN bound ELSE bound \cup {e.name}
                right == FirstFree(e.s[2], inner)
            IN  IF left.some
                THEN Some([name |-> left.v.name, path |-> <<"Left">> \o left.v.path])
                ELSE IF right.some
                THEN Some([name |-> right.v.name, path |-> <<"Right">> \o right.v.path])
                ELSE None
      [] OTHER -> None

\* C24: building var(name) resolves name first against the local environment
\* of the enclosing named binders and, only if it is not bound there, against
\* the arena's term name table (a local binder shadows a global binding of the
\* same name); if the name is in neither, the build fails with
\* ConstNotFound(name) and the enclosing app/abs/prod builders add one Left or
\* Right step each for the position of the failing sub-builder.
C24_NameResolution ==
    last.op = "build" =>
        LET free == FirstFree(last.a, {})
        IN  /\ last.ret.ok <=> ~free.some
            /\ ~last.ret.ok =>
                  /\ last.ret.err.kind = "ConstNotFound"
                  /\ last.ret.err.terms = <<free.v.name>>
                  /\ last.ret.err.trace = Reverse(free.v.path)
            /\ last.ret.ok =>
                  \A path \in VarPaths(last.a) :
                      IF Binders(last.a, path) # {}
                      THEN alloc_terms[NodeAt(last.ret.term, path)].payload.k = "Var"
                      ELSE NodeAt(last.ret.term, path) = named_terms[ExprAt(last.a, path).name]

\* fun x: Prop => x was built in an arena that binds x to a term: the body is
\* the variable of the binder, not that term
C24_Witness ==
    /\ last.op = "build"
    /\ last.a = BAbs("x", BProp, BVar("x"))
    /\ "x" \in DOMAIN named_terms
    /\ last.ret.ok
    /\ alloc_terms[NodeAt(last.ret.term, <<"Right">>)].payload.k = "Var"
    /\ NodeAt(last.ret.term, <<"Right">>) # named_terms["x"]

\* C30: a variable built at depth D that refers to a name introduced by an
\* abs/prod binder at depth d is built as Var(D - d) with D - d >= 1, its
\* cached type being the binder's type shifted by D - d; when several
\* enclosing binders use the same name the innermost one is chosen, and a
\* binder named `_` is never entered in the environment, so var("_") does not
\* resolve to it.
C30_DeBruijnTranslation ==
    /\ (last.op = "build" /\ last.ret.ok) =>
          \A path \in VarPaths(last.a) :
              Binders(last.a, path) # {} =>
                  LET crossed == Crossed(last.a, path, <<>>)
                      innermost == SetMax(Binders(last.a, path))
                      D == Len(crossed)
                      d == innermost - 1
                      binder == alloc_terms[NodeAt(last.ret.term, crossed[innermost].at)].payload
                      v == alloc_terms[NodeAt(last.ret.term, path)].payload
                  IN  /\ v.k = "Var"
                      /\ v.a = D - d
                      /\ D - d >= 1
                      /\ v.b = TermShift(binder.a, D - d, 0, Arena).term
    /\ (last.op = "build" /\ "_" \notin DOMAIN named_terms
        /\ \E path \in VarPaths(last.a) : ExprAt(last.a, path).name = "_") =>
          /\ ~last.ret.ok
          /\ last.ret.err.terms = <<"_">>

\* under two binders of the name x, the inner one of type x, the variable x
\* was built as Var(1) with the type of the inner binder, shifted to Var(2)
C30_Witness ==
    /\ last.op = "build"
    /\ last.a = BAbs("x", BProp, BAbs("x", BVar("x"), BVar("x")))
    /\ last.ret.ok
    /\ LET inner == alloc_terms[NodeAt(last.ret.term, <<"Right">>)].payload
           v == alloc_terms[inner.b].payload
       IN  /\ alloc_terms[inner.a].payload.k = "Var"
           /\ alloc_terms[inner.a].payload.a = 1
           /\ v.k = "Var"
           /\ v.a = 1
           /\ alloc_terms[v.b].payload.k = "Var"
           /\ alloc_terms[v.b].payload.a = 2
           /\ v.b # inner.a

-----------------------------------------------------------------------------
(* Claims about the eliminator of equality and whnf, checked under SpecElim. *)

\* the arguments a term is applied to, as it is written, the first one first
RECURSIVE SpineArgs(_)
SpineArgs(t) ==
    IF IsKind(t, "App")
    THEN Append(SpineArgs(alloc_terms[t].payload.a), alloc_terms[t].payload.b)
    ELSE <<>>

\* what is applied to them
RECURSIVE SpineHead(_)
SpineHead(t) == IF IsKind(t, "App") THEN SpineHead(alloc_terms[t].payload.a) ELSE t

\* the axiom a head stands for: the axiom itself, or the one a declaration
\* unfolds to
HeadAxiom(h) ==
    LET p == alloc_terms[h].payload
        body == alloc_decls[p.a].payload.decl.term
    IN  IF p.k = "Axiom" THEN p.a
        ELSE IF p.k = "Decl" /\ IsKind(body, "Axiom") THEN alloc_terms[body].payload.a
        ELSE "none"

\* t is `axiom` applied to n arguments, as it is written
IsAxiomOn(t, axiom, n) ==
    /\ Len(SpineArgs(t)) = n
    /\ HeadAxiom(SpineHead(t)) = axiom

\* t is Eq_rec A a m r b (Refl A' a')
IsElimOnRefl(t) == IsAxiomOn(t, "EqRec", 6) /\ IsAxiomOn(SpineArgs(t)[6], "Refl", 2)

\* C21 as the specification states it: the reducer rewrites
\* Eq_rec A a m r b (Refl A' a') to r exactly when a, the second argument of
\* Eq_rec, is convertible with a', the second argument of Refl; the result is
\* the fourth argument r itself (same handle)
C21_IotaWhenReflAgrees ==
    (last.op = "reduce" /\ IsElimOnRefl(last.a)) =>
        /\ last.ret.some <=> DefEqNow(SpineArgs(last.a)[2], SpineArgs(SpineArgs(last.a)[6])[2])
        /\ last.ret.some => last.ret.term = SpineArgs(last.a)[4]

\* C21, amended: the reducer rewrites Eq_rec A a m r b (Refl A' a') to r
\* exactly when b.is_def_eq(a) succeeds, b the fifth and a the second argument
\* of Eq_rec, whatever A' and a' are; the result is the fourth argument r
\* itself (same handle)
C21_IotaWhenEndpointsAgree ==
    (last.op = "reduce" /\ IsElimOnRefl(last.a)) =>
        /\ last.ret.some <=> DefEqNow(SpineArgs(last.a)[5], SpineArgs(last.a)[2])
        /\ last.ret.some => last.ret.term = SpineArgs(last.a)[4]

\* Eq_rec A a m r b (Refl A' a') was rewritten to r with b a redex of normal
\* form a, while a' is not convertible with a
C21_Witness ==
    /\ last.op = "reduce"
    /\ IsElimOnRefl(last.a)
    /\ last.ret.some
    /\ last.ret.term = SpineArgs(last.a)[4]
    /\ SpineArgs(last.a)[5] # SpineArgs(last.a)[2]
    /\ ~DefEqNow(SpineArgs(last.a)[2], SpineArgs(SpineArgs(last.a)[6])[2])

\* the head and the arguments of t along its spine, each segment in weak-head
\* normal form before it is taken apart, the head unfolded
RECURSIVE WhnfSpine(_, _)
WhnfSpine(t, arena) ==
    Let(TermWhnf(t, arena), LAMBDA w :
    IF TermDeref(w.arena, w.term).k = "App"
    THEN Let(WhnfSpine(TermDeref(w.arena, w.term).a, w.arena), LAMBDA rest :
         [arena |-> rest.arena, head |-> rest.head,
          args |-> Append(rest.args, TermDeref(w.arena, w.term).b)])
    ELSE Let(TermUnfold(w.term, w.arena), LAMBDA u :
         Let(TermWhnf(u.term, u.arena), LAMBDA h :
         [arena |-> h.arena, head |-> h.term, args |-> <<>>])))

\* along its spine, t is `axiom` applied to n arguments
IsAxiomAlong(t, axiom, n) ==
    Let(WhnfSpine(t, Arena), LAMBDA spine :
    /\ Len(spine.args) = n
    /\ TermDeref(spine.arena, spine.head).k = "Axiom"
    /\ TermDeref(spine.arena, spine.head).a = axiom)

\* C22: Equality::reduce returns None, leaving the term unchanged, whenever
\* the term is not Eq_rec applied to exactly six arguments along its whnf-ed
\* spine, or the weak-head normal form of the sixth argument is not Refl
\* applied to two arguments; in particular Eq_rec A a m r b p with p a
\* variable is its own weak-head normal form.
C22_StuckEliminator ==
    /\ (last.op = "reduce" /\ last.ret.some) =>
          /\ IsKind(last.a, "App")
          /\ IsAxiomAlong(alloc_terms[last.a].payload.a, "EqRec", 5)
          /\ IsAxiomAlong(alloc_terms[last.a].payload.b, "Refl", 2)
    /\ (last.op = "reduce" /\ ~last.ret.some) => last.ret.term = 0
    /\ (last.op = "whnf" /\ IsAxiomOn(last.a, "EqRec", 6)
        /\ IsKind(SpineArgs(last.a)[6], "Var")) => last.ret = last.a

\* whnf was called on Eq_rec A a m r a p with p a variable, and gave the term back
C22_Witness ==
    /\ last.op = "whnf"
    /\ IsAxiomOn(last.a, "EqRec", 6)
    /\ IsKind(SpineArgs(last.a)[6], "Var")
    /\ SpineArgs(last.a)[5] = SpineArgs(last.a)[2]
    /\ last.ret = last.a
    /\ alloc_terms[last.a].whnf = last.a

\* C25: whnf is idempotent by handle: whnf(whnf(t)) returns the same handle as
\* whnf(t), and repeated calls of whnf(t) return the same handle.
C25_WhnfIdempotent ==
    last.op = "whnf" =>
        /\ TermWhnf(last.ret, Arena).term = last.ret
        /\ TermWhnf(last.a, Arena).term = last.ret
        /\ \A t \in DOMAIN alloc_terms :
               alloc_terms[t].whnf # 0 =>
                   TermWhnf(alloc_terms[t].whnf, Arena).term = alloc_terms[t].whnf

\* whnf rewrote an eliminator to its fourth argument, a redex, and reduced it
\* further to a sort
C25_Witness ==
    /\ last.op = "whnf"
    /\ IsElimOnRefl(last.a)
    /\ last.ret # last.a
    /\ last.ret # SpineArgs(last.a)[4]
    /\ IsKind(last.ret, "Sort")

====
